---- MODULE Spec2Model ----
(***************************************************************************)
(* A model of db_validation.py: the driving loop of main, the queries that *)
(* refresh the input files (execute_to_csv, parse_input_sql), the table    *)
(* object (DB_Table), the rule functions, the key join of compare,         *)
(* duplicate detection, the column overlap and the report writer.          *)
(*                                                                         *)
(* Text is a sequence of one-character strings (<<"0","0","7">> is "007"). *)
(* The characters are the printable ones of Latin-1 (without the micro     *)
(* sign and y with diaeresis, whose capitals lie outside, without the two  *)
(* that do not show and without the grave accent, which no string of this  *)
(* language can hold) and tab, newline, carriage return and form feed; the *)
(* operators that classify a character have no case for any other.         *)
(*                                                                         *)
(* A cell of a dataframe is a tagged record. pandas reads every cell with  *)
(* dtype=object, so a cell read from a file is a str or the float NaN (the *)
(* null marker); a rule can turn it into an int or a float. A float is     *)
(* written n * 10^e with n not divisible by 10: the double nearest to that *)
(* decimal. Doubles of at most 9 significant digits are covered, and ints  *)
(* of 32 bits; there is no value beyond.                                   *)
(*                                                                         *)
(* What lies outside the program is chosen freely within small sets: the   *)
(* files found, the answers of the database, the platform (os.name), the   *)
(* texts the installed pandas reads as missing values. Every path the      *)
(* program writes to is taken to be writable, so that every to_csv and the *)
(* open of the report file succeed; the mapping file is taken to be there, *)
(* each of its entries with the keys Columns, Rules and PK and each rule   *)
(* with target, column and operation. The runtime metric is left out, and  *)
(* column_detail is as the program sets it, True.                          *)
(*                                                                         *)
(* A printed line is a text; the name of a column and the target of a rule *)
(* stand in it as one element each, as they do in a rule.                  *)
(***************************************************************************)
EXTENDS Integers, Sequences, FiniteSets, Bags, TLC

VARIABLES
    pc,           \* where the process is: "start", "main", "rules", "compare", "done",
                  \* "raised", or, for a direct call of cast_int, "call" and "returned"
    error,        \* the uncaught exception that ended the process, "" when none
    os_name,      \* os.name: "nt" or "posix"
    location,     \* os.path.dirname(os.path.dirname(__file__)), a text
    na_values,    \* the texts pd.read_csv takes for a missing value
    run_queries,  \* the global run_queries
    debug,        \* the global debug
    sql_file,     \* INPUT/INPUT_SQL_QUERIES.sql: whether it is missing, and its lines
    snowflake,    \* the database: what connecting gives, and its answer to each statement
    table_dict,   \* the entries main still has to iterate over
    input_files,  \* the csv files, by the components of their paths
    json_dict,    \* INPUT/CONFIG/column_mappings.json, in the order json.load keeps
    table,        \* the DB_Table object under construction or comparison
    rule_idx,     \* position of the for loop over self.column_rules
    first_run,    \* the global first_run
    open_modes,   \* the mode argument of every open() of the report file, in order
    report_file,  \* the text of the report file, one entry per write
    output,       \* the csv files compare wrote for the current table, and its counts
    stdout,       \* what print has written, one entry per call, in order
    x,            \* the argument of a direct call of cast_int
    result        \* what that call returned or raised

vars == <<pc, error, os_name, location, na_values, run_queries, debug, sql_file,
          snowflake, table_dict, input_files, json_dict, table, rule_idx, first_run,
          open_modes, report_file, output, stdout, x, result>>

(***************************************************************************)
(* Bounds of the model.                                                    *)
(***************************************************************************)
MaxRows == 2      \* rows of a dataset in the comparison inputs
MaxRules == 2     \* rules of a configuration entry
MaxConfig == 2    \* entries of column_mappings.json
MaxTables == 2    \* tables of one run
MaxLen == 3       \* characters of a cast_int argument
MaxFiles == 2     \* files of a source directory that is listed

Abs(n) == IF n >= 0 THEN n ELSE -n

(***************************************************************************)
(* Cells.                                                                  *)
(***************************************************************************)
NULL == [k |-> "nan", s |-> <<>>, n |-> 0, e |-> 0]
StrCell(s) == [k |-> "str", s |-> s, n |-> 0, e |-> 0]
IntCell(n) == [k |-> "int", s |-> <<>>, n |-> n, e |-> 0]
\* the double nearest to n * 10^e, n # 0 and not divisible by 10, or 0.0
FloatCell(n, e) == [k |-> "float", s |-> <<>>, n |-> n, e |-> e]
\* -0.0
NegZero == [k |-> "negzero", s |-> <<>>, n |-> 0, e |-> 0]
\* inf (sign 1) and -inf (sign -1)
Inf(sign) == [k |-> "inf", s |-> <<>>, n |-> sign, e |-> 0]
\* the None a JSON null becomes, and the place of a key a rule does not have
None == [k |-> "none", s |-> <<>>, n |-> 0, e |-> 0]
Absent == [k |-> "absent", s |-> <<>>, n |-> 0, e |-> 0]

\* the float of the decimal n * 10^e, trailing zeros of n moved into e
RECURSIVE Float(_, _)
Float(n, e) ==
    IF n = 0 THEN FloatCell(0, 0)
    ELSE IF n % 10 = 0 THEN Float(n \div 10, e + 1)
    ELSE FloatCell(n, e)

\* What a call gives: a value, or an exception named with the line raising it.
Return(v) == [ok |-> TRUE, v |-> v, err |-> ""]
Raise(err) == [ok |-> FALSE, v |-> NULL, err |-> err]

\* if debug: print(text): the lines it adds to the output
debug_print(dbg, text) == IF dbg THEN <<text>> ELSE <<>>

\* Python's ==, as the rule functions and the elementwise comparison of two
\* columns use it: NaN is equal to nothing, itself included; a str equals
\* only the same str; numbers are equal when their values are (7 == 7.0,
\* 0.0 == -0.0).
PyEq(a, b) ==
    IF a.k = "nan" \/ b.k = "nan" THEN FALSE
    ELSE IF a.k = "str" \/ b.k = "str" THEN a.k = b.k /\ a.s = b.s
    ELSE IF a.k = "inf" \/ b.k = "inf" THEN a.k = b.k /\ a.n = b.n
    ELSE LET va == Float(a.n, a.e)
             vb == Float(b.n, b.e)
         IN va.n = vb.n /\ va.e = vb.e

\* Equality of key values in merge and duplicated: pandas hashes the key
\* columns, and in its hash tables all NaN are one value.
KeyEq(a, b) == (a.k = "nan" /\ b.k = "nan") \/ PyEq(a, b)

(***************************************************************************)
(* Characters.                                                             *)
(***************************************************************************)
DigitChars == <<"0", "1", "2", "3", "4", "5", "6", "7", "8", "9">>
\* the characters str.upper changes into one other character, and that one
LowerChars ==
    <<"a", "b", "c", "d", "e", "f", "g", "h", "i", "j", "k", "l", "m", "n", "o", "p",
      "q", "r", "s", "t", "u", "v", "w", "x", "y", "z", "à", "á", "â", "ã", "ä", "å",
      "æ", "ç", "è", "é", "ê", "ë", "ì", "í", "î", "ï", "ð", "ñ", "ò", "ó", "ô", "õ",
      "ö", "ø", "ù", "ú", "û", "ü", "ý", "þ">>
UpperChars ==
    <<"A", "B", "C", "D", "E", "F", "G", "H", "I", "J", "K", "L", "M", "N", "O", "P",
      "Q", "R", "S", "T", "U", "V", "W", "X", "Y", "Z", "À", "Á", "Â", "Ã", "Ä", "Å",
      "Æ", "Ç", "È", "É", "Ê", "Ë", "Ì", "Í", "Î", "Ï", "Ð", "Ñ", "Ò", "Ó", "Ô", "Õ",
      "Ö", "Ø", "Ù", "Ú", "Û", "Ü", "Ý", "Þ">>
\* the characters str.upper leaves as they are
PlainChars ==
    {"\t", "\n", "\f", "\r", " ", "!", "\"", "#", "$", "%", "&", "'", "(", ")", "*",
     "+", ",", "-", ".", "/", "0", "1", "2", "3", "4", "5", "6", "7", "8", "9", ":",
     ";", "<", "=", ">", "?", "@", "A", "B", "C", "D", "E", "F", "G", "H", "I", "J",
     "K", "L", "M", "N", "O", "P", "Q", "R", "S", "T", "U", "V", "W", "X", "Y", "Z",
     "[", "\\", "]", "^", "_", "{", "|", "}", "~", "¡", "¢", "£", "¤", "¥", "¦", "§",
     "¨", "©", "ª", "«", "¬", "®", "¯", "°", "±", "²", "³", "´", "¶", "·", "¸", "¹",
     "º", "»", "¼", "½", "¾", "¿", "À", "Á", "Â", "Ã", "Ä", "Å", "Æ", "Ç", "È", "É",
     "Ê", "Ë", "Ì", "Í", "Î", "Ï", "Ð", "Ñ", "Ò", "Ó", "Ô", "Õ", "Ö", "×", "Ø", "Ù",
     "Ú", "Û", "Ü", "Ý", "Þ", "÷"}
\* the characters str.isnumeric accepts
NumericChars ==
    {"0", "1", "2", "3", "4", "5", "6", "7", "8", "9", "²", "³", "¹", "¼", "½", "¾"}
\* the whitespace among them: what str.strip() and float() remove
SpaceChars == {" ", "\t", "\n", "\r", "\f"}
\* the ASCII characters
AsciiChars ==
    {"\t", "\n", "\f", "\r", " ", "!", "\"", "#", "$", "%", "&", "'", "(", ")", "*",
     "+", ",", "-", ".", "/", "0", "1", "2", "3", "4", "5", "6", "7", "8", "9", ":",
     ";", "<", "=", ">", "?", "@", "A", "B", "C", "D", "E", "F", "G", "H", "I", "J",
     "K", "L", "M", "N", "O", "P", "Q", "R", "S", "T", "U", "V", "W", "X", "Y", "Z",
     "[", "\\", "]", "^", "_", "a", "b", "c", "d", "e", "f", "g", "h", "i", "j", "k",
     "l", "m", "n", "o", "p", "q", "r", "s", "t", "u", "v", "w", "x", "y", "z", "{",
     "|", "}", "~"}

IsLower(c) == \E i \in 1..Len(LowerChars) : LowerChars[i] = c
IsDigit(c) == \E i \in 1..10 : DigitChars[i] = c
DigitVal(c) == (CHOOSE i \in 1..10 : DigitChars[i] = c) - 1

\* c.isspace(), c.isascii()
IsSpace(c) ==
    CASE c \in SpaceChars -> TRUE
      [] c \in PlainChars \ SpaceChars \/ IsLower(c) \/ c = "ß" -> FALSE
IsAscii(c) ==
    CASE c \in AsciiChars -> TRUE
      [] c \in PlainChars \ AsciiChars \/ (IsLower(c) /\ c \notin AsciiChars) \/ c = "ß" -> FALSE

\* c.isnumeric()
IsNumericChar(c) ==
    CASE c \in NumericChars -> TRUE
      [] c \in PlainChars \ NumericChars -> FALSE
      [] IsLower(c) \/ c = "ß" -> FALSE

\* c.upper(), a text: the capital of sharp s is two characters
UpperChar(c) ==
    CASE IsLower(c) -> <<UpperChars[CHOOSE i \in 1..Len(LowerChars) : LowerChars[i] = c]>>
      [] c = "ß" -> <<"S", "S">>
      [] c \in PlainChars -> <<c>>

(***************************************************************************)
(* Text helpers.                                                           *)
(***************************************************************************)
Range(s) == {s[i] : i \in 1..Len(s)}

\* the rows of a sequence of sequences, one after the other
RECURSIVE Flatten(_)
Flatten(ss) == IF ss = <<>> THEN <<>> ELSE Head(ss) \o Flatten(Tail(ss))

Repeat(c, k) == [i \in 1..k |-> c]

\* str.upper
Upper(s) == Flatten([i \in 1..Len(s) |-> UpperChar(s[i])])

\* sub in s
StartsAt(sub, s, i) ==
    /\ i + Len(sub) - 1 <= Len(s)
    /\ \A j \in 1..Len(sub) : s[i + j - 1] = sub[j]
Contains(sub, s) == \E i \in 1..(Len(s) + 1) : StartsAt(sub, s, i)

\* s.lstrip('0')
RECURSIVE lstrip0(_)
lstrip0(s) == IF s # <<>> /\ Head(s) = "0" THEN lstrip0(Tail(s)) ELSE s

\* s.isnumeric()
isnumeric(s) == s # <<>> /\ \A i \in 1..Len(s) : IsNumericChar(s[i])

\* s.isdecimal(): the texts int() parses once isnumeric has passed them
isdecimal(s) == s # <<>> /\ \A i \in 1..Len(s) : IsDigit(s[i])

\* int(s) of a text of decimal digits
RECURSIVE ParseInt(_)
ParseInt(s) ==
    IF s = <<>> THEN 0
    ELSE 10 * ParseInt(SubSeq(s, 1, Len(s) - 1)) + DigitVal(s[Len(s)])

\* str(n) of an int
RECURSIVE IntText(_)
IntText(n) ==
    IF n < 0 THEN <<"-">> \o IntText(-n)
    ELSE IF n < 10 THEN <<DigitChars[n + 1]>>
    ELSE IntText(n \div 10) \o <<DigitChars[(n % 10) + 1]>>

\* repr of the float n * 10^e, n # 0: the shortest digits that give the
\* float back, with a point and, for a decimal point before the fourth
\* leading zero or beyond the sixteenth digit, an exponent
FloatText(n, e) ==
    LET d == IntText(Abs(n))
        sign == IF n < 0 THEN <<"-">> ELSE <<>>
        decpt == Len(d) + e
        xp == decpt - 1
        xd == IntText(Abs(xp))
    IN IF -4 < decpt /\ decpt <= 16
       THEN sign \o (IF decpt <= 0 THEN <<"0", ".">> \o Repeat("0", -decpt) \o d
                     ELSE IF decpt >= Len(d) THEN d \o Repeat("0", decpt - Len(d)) \o <<".", "0">>
                     ELSE SubSeq(d, 1, decpt) \o <<".">> \o SubSeq(d, decpt + 1, Len(d)))
       ELSE sign \o <<Head(d)>> \o (IF Len(d) > 1 THEN <<".">> \o Tail(d) ELSE <<>>)
            \o <<"e", IF xp < 0 THEN "-" ELSE "+">>
            \o (IF Len(xd) < 2 THEN <<"0">> ELSE <<>>) \o xd

\* str(x)
PyStr(c) ==
    CASE c.k = "str" -> c.s
      [] c.k = "nan" -> <<"n", "a", "n">>
      [] c.k = "int" -> IntText(c.n)
      [] c.k = "float" -> IF c.n = 0 THEN <<"0", ".", "0">> ELSE FloatText(c.n, c.e)
      [] c.k = "negzero" -> <<"-", "0", ".", "0">>
      [] c.k = "inf" -> IF c.n < 0 THEN <<"-", "i", "n", "f">> ELSE <<"i", "n", "f">>
      [] c.k = "none" -> <<"N", "o", "n", "e">>

\* s.replace(old, ''): every occurrence, left to right, not overlapping
RECURSIVE RemoveAll(_, _)
RemoveAll(s, old) ==
    IF old = <<>> \/ s = <<>> THEN s
    ELSE IF StartsAt(old, s, 1) THEN RemoveAll(SubSeq(s, Len(old) + 1, Len(s)), old)
    ELSE <<Head(s)>> \o RemoveAll(Tail(s), old)

\* s.split(sep)[0]: the text before the first sep
RECURSIVE BeforeFirst(_, _)
BeforeFirst(s, sep) ==
    IF s = <<>> \/ Head(s) = sep THEN <<>>
    ELSE <<Head(s)>> \o BeforeFirst(Tail(s), sep)

\* s.split(sep)[-1]: the text after the last sep
AfterLast(s, sep) ==
    LET at == {i \in 1..Len(s) : s[i] = sep}
    IN IF at = {} THEN s
       ELSE SubSeq(s, (CHOOSE i \in at : \A j \in at : j <= i) + 1, Len(s))

\* s.split(sep): the pieces between the separators
RECURSIVE Split(_, _)
Split(s, sep) ==
    LET first == BeforeFirst(s, sep)
    IN IF Len(first) = Len(s) THEN <<s>>
       ELSE <<first>> \o Split(SubSeq(s, Len(first) + 2, Len(s)), sep)

\* s.strip(chars): the characters of a set removed from both ends
RECURSIVE Strip(_, _)
Strip(s, chars) ==
    IF s # <<>> /\ Head(s) \in chars THEN Strip(Tail(s), chars)
    ELSE IF s # <<>> /\ s[Len(s)] \in chars THEN Strip(SubSeq(s, 1, Len(s) - 1), chars)
    ELSE s

\* s.strip(): whitespace removed from both ends
RECURSIVE PyStrip(_)
PyStrip(s) ==
    IF s # <<>> /\ IsSpace(Head(s)) THEN PyStrip(Tail(s))
    ELSE IF s # <<>> /\ IsSpace(s[Len(s)]) THEN PyStrip(SubSeq(s, 1, Len(s) - 1))
    ELSE s

(***************************************************************************)
(* Where the code rounds a double. The double nearest to a ratio n / d is  *)
(* not computed: what decides a rounding is the side of n / d on which     *)
(* that double lies, and the remainders of the long division tell it.      *)
(***************************************************************************)
\* a * b mod d without a product beyond 32 bits, 0 <= a < d < 2^30
RECURSIVE MulMod(_, _, _)
MulMod(a, b, d) ==
    IF b = 0 THEN 0
    ELSE (((2 * MulMod(a, b \div 2, d)) % d) + (IF b % 2 = 1 THEN a ELSE 0)) % d

\* 2^k mod d, 0 < d < 2^30
RECURSIVE Pow2Mod(_, _)
Pow2Mod(k, d) ==
    IF k = 0 THEN 1 % d
    ELSE LET Squared(h) == MulMod(MulMod(h, h, d), IF k % 2 = 1 THEN 2 ELSE 1, d)
         IN Squared(Pow2Mod(k \div 2, d))

\* the j with 2^j <= n / d < 2^(j + 1), 0 < n < 2^30, 0 < d < 2^30
Log2Floor(n, d) ==
    IF n >= d
    THEN CHOOSE j \in 0..29 : 2^j <= n \div d /\ n \div d < 2^(j + 1)
    ELSE -(CHOOSE j \in 1..30 : (d - 1) \div 2^j < n /\ (d - 1) \div 2^(j - 1) >= n)

\* The sign of double(n / d) - n / d, 0 < n < 2^30, 0 < d < 2^30: the
\* quotient is cut after its 53rd bit, the remainder r decides between
\* the two neighbours, and a remainder of just a half goes to the even one.
QuotientSide(n, d) ==
    LET s == 52 - Log2Floor(n, d)
        r == MulMod(n % d, Pow2Mod(s, d), d)
        odd == 2 * MulMod(n % d, Pow2Mod(s - 1, d), d) >= d
    IN IF r = 0 THEN 0
       ELSE IF 2 * r > d \/ (2 * r = d /\ odd) THEN 1
       ELSE -1

\* the largest i <= k with 5^i a divisor of a
FivesIn(a, k) == CHOOSE i \in 0..k : a % 5^i = 0 /\ (i = k \/ a % 5^(i + 1) # 0)

\* The sign of double(a * 10^e) - a * 10^e, 0 < a < 10^9: 0 when the decimal
\* is a double, else the side on which float() lands. The powers of two in
\* 10^e move the bits and leave the side. No case for an exponent beyond
\* those of the fields read here.
FloatSide(a, e) ==
    CASE e \in 0..9 -> 0
      [] e \in -13..-1 /\ -e - FivesIn(a, -e) <= 12 ->
            QuotientSide(a \div 5^FivesIn(a, -e), 5^(-e - FivesIn(a, -e)))

(***************************************************************************)
(* float() and round().                                                    *)
(***************************************************************************)
RECURSIVE rstrip0(_)
rstrip0(s) == IF s # <<>> /\ s[Len(s)] = "0" THEN rstrip0(SubSeq(s, 1, Len(s) - 1)) ELSE s

\* the first nine digits of a decimal, as a number
Lead9(d) == ParseInt(SubSeq(d \o Repeat("0", 9), 1, 9))

\* The float of the decimal 0.d * 10^(xp + 1), d digits without zeros at
\* either end, xp the power of ten of the first digit: infinite above the
\* largest double; zero up to half the smallest, 2.47032822920623272...e-324;
\* the smallest, 5e-324, from there to 7.41098468761869816...e-324, which
\* eighteen digits decide unless they are these and more follow. No other
\* case for more than nine digits, nor for the other subnormal doubles,
\* which differ in fewer digits.
MakeFloat(neg, d, xp) ==
    LET lead == Lead9(d)
        next == ParseInt(SubSeq(d \o Repeat("0", 18), 10, 18))
        UpTo(a, b) == lead < a \/ (lead = a /\ (next < b \/ (next = b /\ Len(d) <= 18)))
        Above(a, b) == lead > a \/ (lead = a /\ next > b)
    IN CASE d = <<>> -> IF neg THEN NegZero ELSE FloatCell(0, 0)
         [] d # <<>> /\ (xp > 308 \/ (xp = 308 /\ lead >= 179769314)) ->
               Inf(IF neg THEN -1 ELSE 1)
         [] d # <<>> /\ (xp < -324 \/ (xp = -324 /\ UpTo(247032822, 920623272))) ->
               IF neg THEN NegZero ELSE FloatCell(0, 0)
         [] /\ d # <<>> /\ xp = -324
            /\ Above(247032822, 920623272) /\ UpTo(741098468, 761869816) ->
               FloatCell(IF neg THEN -5 ELSE 5, -324)
         [] /\ d # <<>> /\ Len(d) <= 9
            /\ (xp < 308 \/ (xp = 308 /\ lead <= 179769313))
            /\ (xp > -308 \/ (xp = -308 /\ lead >= 222507386)) ->
               FloatCell((IF neg THEN -1 ELSE 1) * ParseInt(d), xp - Len(d) + 1)

\* the exponent after e or E: a sign and digits; beyond six digits its value
\* no longer matters
ExponentOK(t) ==
    LET u == IF t # <<>> /\ Head(t) \in {"+", "-"} THEN Tail(t) ELSE t IN isdecimal(u)
ExponentOf(t) ==
    LET u == lstrip0(IF Head(t) \in {"+", "-"} THEN Tail(t) ELSE t)
        v == IF Len(u) > 6 THEN 1000000 ELSE ParseInt(u)
    IN IF Head(t) = "-" THEN -v ELSE v

\* the digits before e: digits and at most one point, a digit at least
MantissaOK(t) ==
    /\ \A i \in 1..Len(t) : IsDigit(t[i]) \/ t[i] = "."
    /\ Cardinality({i \in 1..Len(t) : t[i] = "."}) <= 1
    /\ \E i \in 1..Len(t) : IsDigit(t[i])

\* a decimal number: the digits before the point (ip), those after it (fp)
\* and the exponent
DecimalFloat(neg, ip, fp, ex) ==
    LET lead == lstrip0(ip \o fp)
    IN MakeFloat(neg, rstrip0(lead), ex + Len(ip) - 1 - (Len(ip \o fp) - Len(lead)))

\* the place of the first e or E of a text, past its end when there is none
ExponentAt(body) ==
    LET es == {i \in 1..Len(body) : body[i] \in {"e", "E"}}
    IN IF es = {} THEN Len(body) + 1 ELSE CHOOSE i \in es : \A j \in es : i <= j

\* the text before the exponent mark, the text after it
FloatOfParts(neg, mant, marked, expo) ==
    IF MantissaOK(mant) /\ (~marked \/ ExponentOK(expo))
    THEN Return(DecimalFloat(neg, BeforeFirst(mant, "."),
                             SubSeq(mant, Len(BeforeFirst(mant, ".")) + 2, Len(mant)),
                             IF marked THEN ExponentOf(expo) ELSE 0))
    ELSE Raise("ValueError:393")

\* the text after the sign: inf, infinity, nan in any case, or a decimal
\* number with an optional exponent
FloatOfBody(neg, body) ==
    IF Upper(body) \in {<<"I", "N", "F">>, <<"I", "N", "F", "I", "N", "I", "T", "Y">>}
    THEN Return(Inf(IF neg THEN -1 ELSE 1))
    ELSE IF Upper(body) = <<"N", "A", "N">> THEN Return(NULL)
    ELSE FloatOfParts(neg, SubSeq(body, 1, ExponentAt(body) - 1),
                      ExponentAt(body) <= Len(body),
                      SubSeq(body, ExponentAt(body) + 1, Len(body)))

\* an underscore may stand between two digits only
Underscored(t) ==
    \A i \in 1..Len(t) : t[i] = "_" =>
        i > 1 /\ i < Len(t) /\ IsDigit(t[i - 1]) /\ IsDigit(t[i + 1])

\* the text without its underscores: an optional sign, and the rest
FloatOfSigned(u) ==
    FloatOfBody(u # <<>> /\ Head(u) = "-",
                IF u # <<>> /\ Head(u) \in {"+", "-"} THEN Tail(u) ELSE u)

\* the text without the whitespace around it: characters beyond ASCII and
\* misplaced underscores are refused
FloatOfStripped(t) ==
    IF \E i \in 1..Len(t) : ~IsAscii(t[i]) THEN Raise("ValueError:393")
    ELSE IF ~Underscored(t) THEN Raise("ValueError:393")
    ELSE FloatOfSigned(SelectSeq(t, LAMBDA c : c # "_"))

\* float(s) of a text: whitespace is stripped, an underscore may stand
\* between two digits, then a sign and inf, infinity, nan in any case, or a
\* decimal number with an optional exponent.
ParseFloat(s) == FloatOfStripped(PyStrip(s))

\* float(x)
PyFloat(c) ==
    CASE c.k = "nan" -> Return(NULL)
      [] c.k = "int" -> Return(Float(c.n, 0))
      [] c.k \in {"float", "negzero", "inf"} -> Return(c)
      [] c.k = "str" -> ParseFloat(c.s)

\* The decimal a * 10^e > 0 with its last k digits rounded away, as round()
\* does it for the double nearest to that decimal: to the nearest, and at a
\* tie of the decimal to the side the double lies on, or to the even
\* neighbour when the double is the decimal.
RoundAway(a, e, k) ==
    IF k > 9 THEN 0
    ELSE LET h == a \div 10^k
             rem == a % 10^k
             half == 5 * 10^(k - 1)
         IN IF rem > half THEN h + 1
            ELSE IF rem < half THEN h
            ELSE LET side == FloatSide(a, e)
                 IN IF side > 0 \/ (side = 0 /\ h % 2 = 1) THEN h + 1 ELSE h

\* round(x, ndigits) of a float that is a number and not a zero
RoundDigits(c, nd) ==
    IF -c.e <= nd THEN Return(c)
    ELSE LET h == RoundAway(Abs(c.n), c.e, -c.e - nd)
             big == Len(IntText(h)) - 1 - nd
         IN IF h = 0 THEN Return(IF c.n < 0 THEN NegZero ELSE FloatCell(0, 0))
            ELSE IF big > 308 \/ (big = 308 /\ Lead9(IntText(h)) >= 179769314)
            THEN Raise("OverflowError:393")
            ELSE Return(Float((IF c.n < 0 THEN -1 ELSE 1) * h, -nd))

\* round(x, value) of a float x: an int when value is None, the float rounded
\* to that many digits when it is an int, a TypeError for any other value
PyRound(c, value) ==
    CASE value.k = "none" ->
            (CASE c.k = "nan" -> Raise("ValueError:393")
               [] c.k = "inf" -> Raise("OverflowError:393")
               [] c.k = "negzero" -> Return(IntCell(0))
               [] c.k = "float" /\ c.e >= 0 -> Return(IntCell(c.n * 10^c.e))
               [] c.k = "float" /\ c.e < 0 ->
                    Return(IntCell((IF c.n < 0 THEN -1 ELSE 1) * RoundAway(Abs(c.n), c.e, -c.e))))
      [] value.k = "int" ->
            IF c.k \in {"nan", "inf", "negzero"} \/ c.n = 0 THEN Return(c)
            ELSE RoundDigits(c, value.n)
      [] value.k \in {"str", "float"} -> Raise("TypeError:393")

(***************************************************************************)
(* The transformation rule functions.                                      *)
(***************************************************************************)
append_rule(c, value) == Return(StrCell(PyStr(c) \o PyStr(value)))

prepend_rule(c, value) == Return(StrCell(PyStr(value) \o PyStr(c)))

strip_rule(c, value) ==
    LET s == RemoveAll(PyStr(c), PyStr(value)) IN
    IF s = <<>> THEN Return(NULL) ELSE Return(StrCell(s))

trunc_date_rule(c) == Return(StrCell(BeforeFirst(PyStr(c), " ")))

capitalize_rule(c) ==
    IF PyEq(c, NULL) THEN Return(c) ELSE Return(StrCell(Upper(PyStr(c))))

cast_int(c) ==
    LET c1 == IF PyEq(c, NULL) THEN StrCell(<<"0">>) ELSE c IN
    IF c1.k # "str" THEN Raise("AttributeError:379")       \* no lstrip on a float or an int
    ELSE LET s == lstrip0(c1.s)
             t == IF s = <<>> THEN <<"0">> ELSE s
         IN IF ~isnumeric(t) THEN Return(IntCell(0))
            ELSE IF isdecimal(t) THEN Return(IntCell(ParseInt(t)))
            ELSE Raise("ValueError:385")                   \* int() of a numeric character that is no digit

round_rule(c, value) ==
    LET c1 == IF PyEq(c, NULL) \/ PyEq(c, StrCell(<<"N", "o", "n", "e">>)) THEN IntCell(0) ELSE c
        Rounded(f) == IF f.ok THEN PyRound(f.v, value) ELSE f
    IN Rounded(PyFloat(c1))

none_rule(c) ==
    LET s == PyStr(c) IN
    IF Contains(<<"N", "o", "n", "e">>, s) THEN Return(NULL)
    ELSE IF s = <<>> THEN Return(NULL)
    ELSE IF s = <<"N", "A">> THEN Return(NULL)
    ELSE IF s = <<"S", "o", "f", "t", "b", "a", "n", "k">> THEN Return(NULL)
    ELSE Return(c)

(***************************************************************************)
(* Dataframes: the column names, the dtype of each column and the rows,    *)
(* each row a tuple of cells in the order of the columns. The names of the *)
(* columns of one dataframe are distinct.                                  *)
(***************************************************************************)
\* what pd.read_csv(dtype=object) returns: every column of dtype object
ObjectFrame(columns, rows) ==
    [columns |-> columns, dtypes |-> [i \in 1..Len(columns) |-> "object"], rows |-> rows]

HasCol(df, column) == column \in Range(df.columns)
ColPos(df, column) == CHOOSE i \in 1..Len(df.columns) : df.columns[i] = column
Cell(df, row, column) == row[ColPos(df, column)]
MinOf(S) == CHOOSE i \in S : \A j \in S : i <= j
MaxOf(S) == CHOOSE i \in S : \A j \in S : i >= j

\* every ordering of a set, a list(set(...)) and a directory listing being
\* in no defined order
Orderings(S) ==
    {s \in [1..Cardinality(S) -> S] : \A i, j \in 1..Cardinality(S) : s[i] = s[j] => i = j}

\* df[column]: the cells of a column, top down
ColumnCells(df, column) == [i \in 1..Len(df.rows) |-> Cell(df, df.rows[i], column)]

\* the dtype pandas infers for the values a function returned: object when a
\* str is among them, int64 when all are ints, float64 otherwise
InferDtype(cells) ==
    IF \E i \in 1..Len(cells) : cells[i].k \in {"str", "none"} THEN "object"
    ELSE IF \A i \in 1..Len(cells) : cells[i].k = "int" THEN "int64"
    ELSE "float64"

\* a value as a column of the dtype holds it: an int among floats is a float
AsDtype(c, dtype) == IF dtype = "float64" /\ c.k = "int" THEN Float(c.n, 0) ELSE c

\* df[column] = df[column].apply(f), res being the outcomes of f on the cells
\* of the column, top down: the first exception leaves the dataframe as it
\* was; a column without rows keeps its dtype.
ApplyColumn(df, column, res) ==
    LET p == ColPos(df, column)
        bad == {i \in 1..Len(df.rows) : ~res[i].ok}
        dtype == InferDtype([i \in 1..Len(df.rows) |-> res[i].v])
    IN IF bad # {}
       THEN [ok |-> FALSE, df |-> df, err |-> res[MinOf(bad)].err]
       ELSE IF df.rows = <<>> THEN [ok |-> TRUE, df |-> df, err |-> ""]
       ELSE [ok |-> TRUE,
             df |-> [df EXCEPT !.dtypes[p] = dtype,
                               !.rows = [i \in 1..Len(df.rows) |->
                                            [df.rows[i] EXCEPT ![p] = AsDtype(res[i].v, dtype)]]],
             err |-> ""]

(***************************************************************************)
(* DB_Table.                                                               *)
(***************************************************************************)
NoTable ==
    [name |-> <<>>, source |-> <<>>, column_mapping |-> <<>>, column_rules |-> <<>>,
     primary_key |-> <<>>, source_df |-> ObjectFrame(<<>>, <<>>),
     snow_df |-> ObjectFrame(<<>>, <<>>), common_columns |-> <<>>]

\* read_mapping_file with a fault: the first entry whose key is in the name wins
RECURSIVE read_mapping_file_first_match(_, _, _)
read_mapping_file_first_match(self, jd, i) ==
    IF i > Len(jd) THEN self
    ELSE IF Contains(jd[i].key, self.name)
    THEN [self EXCEPT !.column_mapping = jd[i].Columns,
                      !.column_rules = jd[i].Rules,
                      !.primary_key = jd[i].PK]
    ELSE read_mapping_file_first_match(self, jd, i + 1)

\* The loop of read_mapping_file from entry i on: every entry whose key is
\* in the table name overwrites the three attributes.
RECURSIVE read_mapping_file(_, _, _)
read_mapping_file(self, jd, i) ==
    IF i > Len(jd) THEN self
    ELSE read_mapping_file(
            IF Contains(jd[i].key, self.name)
            THEN [self EXCEPT !.column_mapping = jd[i].Columns,
                              !.column_rules = jd[i].Rules,
                              !.primary_key = jd[i].PK]
            ELSE self,
            jd, i + 1)

\* DataFrame.rename(columns=mapping): mapping is a tuple of <<old, new>> pairs
\* with distinct old names.
Renamed(mapping, column) ==
    IF \E i \in 1..Len(mapping) : mapping[i][1] = column
    THEN mapping[CHOOSE i \in 1..Len(mapping) : mapping[i][1] = column][2]
    ELSE column

rename_source_columns(self) ==
    [self EXCEPT !.source_df.columns =
        [i \in 1..Len(self.source_df.columns) |->
            Renamed(self.column_mapping, self.source_df.columns[i])]]

\* set(source_df.columns) & set(snow_df.columns), without TSTAMP
CommonColumnSet(self) ==
    (Range(self.source_df.columns) \cap Range(self.snow_df.columns)) \ {"TSTAMP"}

Operations ==
    {"append", "prepend", "strip", "capitalize", "trunc_date", "cast_int", "round", "none"}

\* apply_rule, the column is not in the addressed dataframe: with debug set
\* a message is printed; the method returns
ColumnNotFound(self, rule, dbg) ==
    [ok |-> TRUE, table |-> self, err |-> "",
     out |-> debug_print(dbg,
                <<"C", "o", "l", "u", "m", "n", " ">>
                \o <<rule.column>>
                \o <<" ", "n", "o", "t", " ", "f", "o", "u", "n", "d", " ", "i", "n", " ">>
                \o <<rule.target>>
                \o <<" ", "d", "a", "t", "a", "f", "r", "a", "m", "e", ",", " ", "s", "k", "i",
                     "p", "p", "i", "n", "g", " ", "r", "u", "l", "e", ".", ".", ".">>)]

\* apply_rule, no branch names the operation: a message is printed, whatever
\* debug is
UnknownOperation(self, rule) ==
    [ok |-> TRUE, table |-> self, err |-> "",
     out |-> <<<<"R", "u", "l", "e", " ", "n", "o", "t", " ", "f", "o", "u", "n", "d", " ",
                 "i", "n", " ", "S", "o", "u", "r", "c", "e", ":", " ">>
               \o self.source
               \o <<" ", "T", "a", "b", "l", "e", ":", " ">>
               \o self.name
               \o <<",", " ", "c", "h", "e", "c", "k", " ", "s", "y", "n", "t", "a", "x", " ",
                    "a", "n", "d", " ", "s", "p", "e", "l", "l", "i", "n", "g">>>>]

\* apply_rule: [ok, table, err, out]. rule.value is the value of the rule's 'value'
\* key as json.load gives it, Absent when the rule has no such key: the
\* operations that read it then raise KeyError.
apply_rule(self, rule, dbg) ==
    IF rule.target \notin {"source", "snow"}
    THEN [ok |-> FALSE, table |-> self, err |-> "KeyError:479", out |-> <<>>]
    ELSE
    LET df == IF rule.target = "source" THEN self.source_df ELSE self.snow_df
        col == rule.column
        cells == ColumnCells(df, col)
        Apply(F(_)) == ApplyColumn(df, col, [i \in 1..Len(cells) |-> F(cells[i])])
        Stored(r) ==
            [ok |-> r.ok,
             table |-> IF rule.target = "source"
                       THEN [self EXCEPT !.source_df = r.df]
                       ELSE [self EXCEPT !.snow_df = r.df],
             err |-> r.err,
             out |-> <<>>]
        NoValue(line) == [ok |-> FALSE, table |-> self, err |-> line, out |-> <<>>]
    IN IF ~HasCol(df, col) THEN ColumnNotFound(self, rule, dbg)
       ELSE CASE rule.operation = "append" ->
                    IF rule.value = Absent THEN NoValue("KeyError:488")
                    ELSE Stored(Apply(LAMBDA c : append_rule(c, rule.value)))
              [] rule.operation = "prepend" ->
                    IF rule.value = Absent THEN NoValue("KeyError:491")
                    ELSE Stored(Apply(LAMBDA c : prepend_rule(c, rule.value)))
              [] rule.operation = "strip" ->
                    IF rule.value = Absent THEN NoValue("KeyError:494")
                    ELSE Stored(Apply(LAMBDA c : strip_rule(c, rule.value)))
              [] rule.operation = "capitalize" ->
                    Stored(Apply(capitalize_rule))
              [] rule.operation = "trunc_date" ->
                    Stored(Apply(trunc_date_rule))
              [] rule.operation = "cast_int" ->
                    Stored(Apply(cast_int))
              [] rule.operation = "round" ->
                    IF rule.value = Absent THEN NoValue("KeyError:506")
                    ELSE Stored(Apply(LAMBDA c : round_rule(c, rule.value)))
              [] rule.operation = "none" ->
                    Stored(Apply(none_rule))
              [] OTHER -> UnknownOperation(self, rule)

\* none_rule on every column of a dataframe; none_rule raises nothing
RECURSIVE NoneAllColumns(_, _)
NoneAllColumns(df, i) ==
    IF i > Len(df.columns) THEN df
    ELSE NoneAllColumns(
            ApplyColumn(df, df.columns[i],
                [r \in 1..Len(df.rows) |-> none_rule(Cell(df, df.rows[r], df.columns[i]))]).df,
            i + 1)

dv_none_rule(self) ==
    [self EXCEPT !.source_df = NoneAllColumns(self.source_df, 1),
                 !.snow_df = NoneAllColumns(self.snow_df, 1)]

(***************************************************************************)
(* compare and the functions it calls.                                     *)
(***************************************************************************)
KeyOf(df, row, pk) == [i \in 1..Len(pk) |-> Cell(df, row, pk[i])]
KeysEq(k1, k2) == \A i \in 1..Len(k1) : KeyEq(k1[i], k2[i])

Indices(s) == [i \in 1..Len(s) |-> i]

\* the rows of a sequence as a bag: each row with the number of its copies
BagOf(s) == [r \in Range(s) |-> Cardinality({i \in 1..Len(s) : s[i] = r})]

\* KeyMatch with a fault: rows match when all their cells are equal
KeyMatch_full_row(left, lrow, right, rrow, pk) == lrow = rrow

\* merge, on=pk: a left row and a right row match when their key cells are equal
KeyMatch(left, lrow, right, rrow, pk) == KeysEq(KeyOf(left, lrow, pk), KeyOf(right, rrow, pk))

\* merge refuses to join a key column of dtype object that holds a str with
\* a numeric key column, unless one of the two dataframes has no row
KeyDtypesClash(left, right, pk) ==
    /\ left.rows # <<>>
    /\ right.rows # <<>>
    /\ \E i \in 1..Len(pk) :
        LET ld == left.dtypes[ColPos(left, pk[i])]
            rd == right.dtypes[ColPos(right, pk[i])]
            HasStr(df) == \E r \in 1..Len(df.rows) : Cell(df, df.rows[r], pk[i]).k = "str"
        IN \/ ld = "object" /\ rd # "object" /\ HasStr(left)
           \/ rd = "object" /\ ld # "object" /\ HasStr(right)

\* left.merge(right, how='outer', on=pk, indicator=True): [ok, rows, errs].
\* The rows are a bag, the order in which pandas lists them being left open.
\* A merged row is its indicator, its key and its cells under the columns of
\* the left dataframe (xs) and of the right one (ys): a key column holds the
\* key on both sides, any other column of an absent side holds NaN, and an
\* int64 column that received a NaN, or a key column joining int64 with
\* float64, has become float64. An empty key list, a key column one side
\* lacks and clashing key dtypes raise; for the empty key list the class of the
\* exception depends on the version of pandas.
merge(left, right, pk) ==
    IF pk = <<>> THEN [ok |-> FALSE, rows |-> EmptyBag, errs |-> {"ValueError:217", "IndexError:217"}]
    ELSE IF \E i \in 1..Len(pk) : ~HasCol(left, pk[i]) \/ ~HasCol(right, pk[i])
    THEN [ok |-> FALSE, rows |-> EmptyBag, errs |-> {"KeyError:217"}]
    ELSE IF KeyDtypesClash(left, right, pk)
    THEN [ok |-> FALSE, rows |-> EmptyBag, errs |-> {"ValueError:217"}]
    ELSE
    LET Match(i, j) == KeyMatch(left, left.rows[i], right, right.rows[j], pk)
        Matches(i) == SelectSeq(Indices(right.rows), LAMBDA j : Match(i, j))
        Unmatched == SelectSeq(Indices(right.rows),
                        LAMBDA j : \A i \in 1..Len(left.rows) : ~Match(i, j))
        leftOnly == \E i \in 1..Len(left.rows) : Matches(i) = <<>>
        rightOnly == Unmatched # <<>>
        IsKey(c) == c \in Range(pk)
        KeyDtype(c) ==
            LET ld == left.dtypes[ColPos(left, c)]
                rd == right.dtypes[ColPos(right, c)]
            IN IF ld = rd THEN ld
               ELSE IF ld # "object" /\ rd # "object" THEN "float64"
               ELSE "object"
        \* the cells of a row of df under its own columns in the merged frame
        Own(df, row, absent) ==
            [p \in 1..Len(df.columns) |->
                IF IsKey(df.columns[p]) THEN AsDtype(row[p], KeyDtype(df.columns[p]))
                ELSE IF absent /\ df.dtypes[p] = "int64" THEN AsDtype(row[p], "float64")
                ELSE row[p]]
        \* the cells under the columns of df of a row the other side alone has
        Other(df, from, row) ==
            [p \in 1..Len(df.columns) |->
                IF IsKey(df.columns[p])
                THEN AsDtype(Cell(from, row, df.columns[p]), KeyDtype(df.columns[p]))
                ELSE NULL]
        FromLeft(i) ==
            IF Matches(i) = <<>>
            THEN <<[indicator |-> "left_only",
                    key |-> KeyOf(left, Own(left, left.rows[i], rightOnly), pk),
                    xs |-> Own(left, left.rows[i], rightOnly),
                    ys |-> Other(right, left, left.rows[i])]>>
            ELSE [m \in 1..Len(Matches(i)) |->
                    [indicator |-> "both",
                     key |-> KeyOf(left, Own(left, left.rows[i], rightOnly), pk),
                     xs |-> Own(left, left.rows[i], rightOnly),
                     ys |-> Own(right, right.rows[Matches(i)[m]], leftOnly)]]
        FromRight == [m \in 1..Len(Unmatched) |->
                        [indicator |-> "right_only",
                         key |-> KeyOf(right, Own(right, right.rows[Unmatched[m]], leftOnly), pk),
                         xs |-> Other(left, right, right.rows[Unmatched[m]]),
                         ys |-> Own(right, right.rows[Unmatched[m]], leftOnly)]]
    IN [ok |-> TRUE,
        rows |-> BagOf(Flatten([i \in 1..Len(left.rows) |-> FromLeft(i)]) \o FromRight),
        errs |-> {}]

\* merged_df[merged_df['_merge'] == indicator]
WithIndicator(merged_df, indicator) ==
    [r \in {q \in DOMAIN merged_df : q.indicator = indicator} |-> merged_df[r]]

\* unique_records with a fault: the two sides exchanged
unique_records_swapped(merged_df, dbg) ==
    [source |-> WithIndicator(merged_df, "right_only"),
     snow |-> WithIndicator(merged_df, "left_only"),
     out |-> debug_print(dbg, <<"F", "i", "n", "d", "i", "n", "g", " ", "u", "n", "i", "q",
                                "u", "e", ".", ".", ".">>)]

\* unique_records: the two frames it writes, whose lengths are what it
\* returns, and what it prints
unique_records(merged_df, dbg) ==
    [source |-> WithIndicator(merged_df, "left_only"),
     snow |-> WithIndicator(merged_df, "right_only"),
     out |-> debug_print(dbg, <<"F", "i", "n", "d", "i", "n", "g", " ", "u", "n", "i", "q",
                                "u", "e", ".", ".", ".">>)]

\* duplicated with a fault: keep=False, every member of a group is flagged
duplicated_keep_false(df, pk) ==
    LET dup == SelectSeq(Indices(df.rows),
                    LAMBDA i : \E j \in 1..Len(df.rows) : j # i /\
                        KeysEq(KeyOf(df, df.rows[i], pk), KeyOf(df, df.rows[j], pk)))
    IN [m \in 1..Len(dup) |-> df.rows[dup[m]]]

\* df[df.duplicated(pk)]: keep='first', so a row is flagged when an earlier
\* row has its key
duplicated(df, pk) ==
    LET dup == SelectSeq(Indices(df.rows),
                    LAMBDA i : \E j \in 1..(i - 1) :
                        KeysEq(KeyOf(df, df.rows[i], pk), KeyOf(df, df.rows[j], pk)))
    IN [m \in 1..Len(dup) |-> df.rows[dup[m]]]

\* round(e / m, 2) in hundredths, 0 <= e <= m, 0 < m: the hundredth nearest
\* to the double e / m; when e / m is halfway between two, the one on the
\* side of the double, or the even one when the double is e / m
Round2(e, m) ==
    LET h == (100 * e) \div m
        rest == 2 * ((100 * e) % m)
    IN IF rest > m THEN h + 1
       ELSE IF rest < m THEN h
       ELSE LET side == QuotientSide(e, m)
            IN IF side > 0 \/ (side = 0 /\ h % 2 = 1) THEN h + 1 ELSE h

\* The hundredths h for which (h / 100) * 100.0 is not the double h, with the
\* text str.format gives for the product.
OverlapOdd ==
    <<
      <<7, <<"7", ".", "0", "0", "0", "0", "0", "0", "0", "0", "0", "0", "0", "0", "0", "0", "1">>>>,
      <<14, <<"1", "4", ".", "0", "0", "0", "0", "0", "0", "0", "0", "0", "0", "0", "0", "0", "0", "2">>>>,
      <<28, <<"2", "8", ".", "0", "0", "0", "0", "0", "0", "0", "0", "0", "0", "0", "0", "0", "0", "4">>>>,
      <<29, <<"2", "8", ".", "9", "9", "9", "9", "9", "9", "9", "9", "9", "9", "9", "9", "9", "9", "6">>>>,
      <<55, <<"5", "5", ".", "0", "0", "0", "0", "0", "0", "0", "0", "0", "0", "0", "0", "0", "1">>>>,
      <<56, <<"5", "6", ".", "0", "0", "0", "0", "0", "0", "0", "0", "0", "0", "0", "0", "0", "1">>>>,
      <<57, <<"5", "6", ".", "9", "9", "9", "9", "9", "9", "9", "9", "9", "9", "9", "9", "9", "9">>>>,
      <<58, <<"5", "7", ".", "9", "9", "9", "9", "9", "9", "9", "9", "9", "9", "9", "9", "9", "9">>>>>>

\* '{}'.format(round(e / m, 2) * 100.00), for round(e / m, 2) = h / 100
OverlapText(h) ==
    IF \E i \in 1..Len(OverlapOdd) : OverlapOdd[i][1] = h
    THEN OverlapOdd[CHOOSE i \in 1..Len(OverlapOdd) : OverlapOdd[i][1] = h][2]
    ELSE IntText(h) \o <<".", "0">>

\* sorted(items, key=value): stable
RECURSIVE InsertSorted(_, _)
InsertSorted(item, sorted) ==
    IF sorted = <<>> THEN <<item>>
    ELSE IF item.value < Head(sorted).value THEN <<item>> \o sorted
    ELSE <<Head(sorted)>> \o InsertSorted(item, Tail(sorted))

RECURSIVE SortedByValue(_)
SortedByValue(items) ==
    IF items = <<>> THEN <<>>
    ELSE InsertSorted(items[Len(items)], SortedByValue(SubSeq(items, 1, Len(items) - 1)))

\* the number of rows of a bag of merged rows whose two cells of a column
\* are equal
RECURSIVE EqualRows(_, _, _)
EqualRows(df, self, column) ==
    IF DOMAIN df = {} THEN 0
    ELSE LET r == CHOOSE q \in DOMAIN df : TRUE
             rest == [q \in DOMAIN df \ {r} |-> df[q]]
         IN (IF PyEq(Cell(self.source_df, r.xs, column), Cell(self.snow_df, r.ys, column))
             THEN df[r] ELSE 0) + EqualRows(rest, self, column)

\* column_overlap: [ok, lines, err, out]; one line per reported column, its
\* value the rounded ratio in hundredths (the code keeps value / 100 * 100.0,
\* which grows with it) and the text of the percentage.
column_overlap(df, self, dbg) ==
    LET cols == SelectSeq(self.common_columns, LAMBDA c : c \notin Range(self.primary_key))
        Line(c) == LET h == Round2(EqualRows(df, self, c), BagCardinality(df))
                   IN [column |-> c, value |-> h, text |-> OverlapText(h)]
        out == debug_print(dbg, <<"D", "e", "t", "e", "r", "m", "i", "n", "i", "n", "g", " ",
                                  "o", "v", "e", "r", "l", "a", "p", " ", "f", "o", "r", " ",
                                  "e", "a", "c", "h", " ", "c", "o", "l", "u", "m", "n", ".",
                                  ".", ".">>)
    IN IF cols # <<>> /\ DOMAIN df = {}
       THEN [ok |-> FALSE, lines |-> <<>>, err |-> "ZeroDivisionError:309", out |-> out]
       ELSE [ok |-> TRUE,
             lines |-> SortedByValue([i \in 1..Len(cols) |-> Line(cols[i])]),
             err |-> "", out |-> out]

NoCounts ==
    [tot_source |-> 0, tot_snow |-> 0, unique_source |-> 0, unique_snow |-> 0,
     source_duplicates |-> 0, snow_duplicates |-> 0, identical_records |-> 0,
     column_overlap |-> <<>>]

NoOutput ==
    [unique_source |-> EmptyBag, unique_snow |-> EmptyBag, source_dupes |-> <<>>,
     snow_dupes |-> <<>>, identical |-> EmptyBag, counts |-> NoCounts]

\* compare up to the call of report: [ok, output, errs, out]. The csv files
\* written and the lines printed before an exception stay.
compare(self, dbg) ==
    LET Counted(uniq, source_dupes, snow_dupes, identical, ov) ==
            [ok |-> ov.ok,
             output |-> [unique_source |-> uniq.source, unique_snow |-> uniq.snow,
                         source_dupes |-> source_dupes, snow_dupes |-> snow_dupes,
                         identical |-> identical,
                         counts |-> [tot_source |-> Len(self.source_df.rows),
                                     tot_snow |-> Len(self.snow_df.rows),
                                     unique_source |-> BagCardinality(uniq.source),
                                     unique_snow |-> BagCardinality(uniq.snow),
                                     source_duplicates |-> Len(source_dupes),
                                     snow_duplicates |-> Len(snow_dupes),
                                     identical_records |-> BagCardinality(identical),
                                     column_overlap |-> ov.lines]],
             errs |-> IF ov.ok THEN {} ELSE {ov.err},
             out |-> debug_print(dbg, <<"C", "o", "m", "p", "a", "r", "i", "n", "g", " ", "r",
                                        "e", "c", "o", "r", "d", "s", ".", ".", ".">>) \o uniq.out
                        \o debug_print(dbg, <<"G", "e", "t", "t", "i", "n", "g", " ", "d", "u",
                                              "p", "l", "i", "c", "a", "t", "e", "s", ".", ".",
                                              ".">>) \o ov.out]
        Merged(m) ==
            IF ~m.ok
            THEN [ok |-> FALSE, output |-> NoOutput, errs |-> m.errs,
                  out |-> debug_print(dbg, <<"C", "o", "m", "p", "a", "r", "i", "n", "g", " ",
                                             "r", "e", "c", "o", "r", "d", "s", ".", ".", ".">>)]
            ELSE Counted(unique_records(m.rows, dbg),
                         duplicated(self.source_df, self.primary_key),
                         duplicated(self.snow_df, self.primary_key),
                         WithIndicator(m.rows, "both"),
                         column_overlap(WithIndicator(m.rows, "both"), self, dbg))
    IN Merged(merge(self.source_df, self.snow_df, self.primary_key))

\* '{0:.5f}' of abs(s - r) / ((s + r) / 2) * 100, in units of 0.00001 %,
\* s + r > 0: the nearest to 200 * |s - r| / (s + r), which the doubles of
\* the quotient and of the product do not move and which is halfway between
\* two units for no s + r below 512. No case for totals of 108 and more.
PercentVariance(s, r) ==
    CASE s + r < 108 ->
        LET n == 20000000 * Abs(s - r)
        IN n \div (s + r) + (IF 2 * (n % (s + r)) > s + r THEN 1 ELSE 0)

\* the text report writes for one table
ReportEntry(self, metric_dict) ==
    [name |-> self.name, source |-> self.source,
     primary_key |-> self.primary_key, counts |-> metric_dict,
     variance |-> PercentVariance(metric_dict.tot_source, metric_dict.tot_snow)]

\* report with a fault: first_run is not cleared
report_keeps_first_run(self, metric_dict, first, file, dbg) ==
    LET mode == IF first THEN "w" ELSE "a"
        opened == IF mode = "w" THEN <<>> ELSE file
        out == debug_print(dbg, <<"G", "e", "n", "e", "r", "a", "t", "i", "n", "g", " ", "t",
                                  "a", "b", "l", "e", " ", "r", "e", "p", "o", "r", "t", ".",
                                  ".", ".">>)
    IN IF metric_dict.tot_source + metric_dict.tot_snow = 0
       THEN [ok |-> FALSE, mode |-> mode, first_run |-> first, file |-> opened,
             err |-> "ZeroDivisionError:340", out |-> out]
       ELSE [ok |-> TRUE, mode |-> mode, first_run |-> first,
             file |-> Append(opened, ReportEntry(self, metric_dict)),
             err |-> "", out |-> out]

\* report: [ok, mode, first_run, file, err, out]. The file is opened with
\* open_mode[first_run], first_run is cleared, and only then is the text built
\* and written; the division of the percent variance raises when both totals
\* are zero.
report(self, metric_dict, first, file, dbg) ==
    LET mode == IF first THEN "w" ELSE "a"
        opened == IF mode = "w" THEN <<>> ELSE file
        out == debug_print(dbg, <<"G", "e", "n", "e", "r", "a", "t", "i", "n", "g", " ", "t",
                                  "a", "b", "l", "e", " ", "r", "e", "p", "o", "r", "t", ".",
                                  ".", ".">>)
    IN IF metric_dict.tot_source + metric_dict.tot_snow = 0
       THEN [ok |-> FALSE, mode |-> mode, first_run |-> FALSE, file |-> opened,
             err |-> "ZeroDivisionError:340", out |-> out]
       ELSE [ok |-> TRUE, mode |-> mode, first_run |-> FALSE,
             file |-> Append(opened, ReportEntry(self, metric_dict)),
             err |-> "", out |-> out]

(***************************************************************************)
(* Files. A file of input_files is named by the components of its path, as *)
(* the directory holds them, after a first empty component when the path   *)
(* starts at the root; a csv file is the names of its columns and its      *)
(* records, every field a text.                                            *)
(***************************************************************************)
INPUT == <<"I", "N", "P", "U", "T">>
SNOWFLAKE == <<"S", "N", "O", "W", "F", "L", "A", "K", "E">>
DATAVISION == <<"D", "A", "T", "A", "V", "I", "S", "I", "O", "N">>
ALL == <<"A", "L", "L">>
DotCsv == <<".", "c", "s", "v">>

\* the texts read_csv takes for a missing value, whatever the version of pandas
NaStrings ==
    {<<>>, <<"#", "N", "/", "A">>, <<"#", "N", "/", "A", " ", "N", "/", "A">>,
     <<"#", "N", "A">>, <<"-", "1", ".", "#", "I", "N", "D">>,
     <<"-", "1", ".", "#", "Q", "N", "A", "N">>, <<"-", "N", "a", "N">>,
     <<"-", "n", "a", "n">>, <<"1", ".", "#", "I", "N", "D">>,
     <<"1", ".", "#", "Q", "N", "A", "N">>, <<"<", "N", "A", ">">>, <<"N", "/", "A">>,
     <<"N", "A">>, <<"N", "U", "L", "L">>, <<"N", "a", "N">>, <<"n", "/", "a">>,
     <<"n", "a", "n">>, <<"n", "u", "l", "l">>}

\* pd.read_csv(path, dtype=object) of a csv file: a field is NaN when its
\* text is one of na, a str otherwise
ReadCsv(file, na) ==
    ObjectFrame(file.columns,
        [i \in 1..Len(file.rows) |->
            [p \in 1..Len(file.columns) |->
                IF file.rows[i][p] \in na THEN NULL ELSE StrCell(file.rows[i][p])]])

\* the characters that separate the components of a path
Seps(os) == IF os = "nt" THEN {"/", "\\"} ELSE {"/"}

\* a text cut at every character of a set
RECURSIVE SplitAny(_, _)
SplitAny(s, seps) ==
    LET at == {i \in 1..Len(s) : s[i] \in seps}
    IN IF at = {} THEN <<s>>
       ELSE <<SubSeq(s, 1, MinOf(at) - 1)>> \o SplitAny(SubSeq(s, MinOf(at) + 1, Len(s)), seps)

\* the components of a path: no case for a path with . or .. in it
PathParts(path, os) ==
    LET named == SelectSeq(SplitAny(path, Seps(os)), LAMBDA p : p # <<>>)
    IN CASE \A i \in 1..Len(named) : named[i] \notin {<<".">>, <<".", ".">>} ->
            (IF path # <<>> /\ Head(path) \in Seps(os) THEN <<<<>>>> ELSE <<>>) \o named

\* a character as a file name of Windows is compared: without its case
FoldChar(c) ==
    CASE IsLower(c) -> UpperChars[CHOOSE i \in 1..Len(LowerChars) : LowerChars[i] = c]
      [] c = "ß" \/ c \in PlainChars -> c

\* the components of a path as the platform compares them
PathKey(parts, os) ==
    IF os = "nt"
    THEN [i \in 1..Len(parts) |-> [j \in 1..Len(parts[i]) |-> FoldChar(parts[i][j])]]
    ELSE parts

IsProperPrefix(a, b) == Len(a) < Len(b) /\ SubSeq(b, 1, Len(a)) = a

\* the files a path names (one at most), and whether it names a directory
FilesAt(files, path, os) ==
    {f \in DOMAIN files : PathKey(f, os) = PathKey(PathParts(path, os), os)}
IsDirectory(files, path, os) ==
    \E f \in DOMAIN files : IsProperPrefix(PathKey(PathParts(path, os), os), PathKey(f, os))

\* open(path) for reading, at a line of the program: the file, or the
\* exception of that line, which read_csv passes on. A path that names a
\* directory can not be opened; a path that leads through a file is not
\* found on Windows and is no directory on Linux.
OpenFile(files, path, os, line) ==
    LET through == \E f \in DOMAIN files :
                        IsProperPrefix(PathKey(f, os), PathKey(PathParts(path, os), os))
    IN IF FilesAt(files, path, os) # {}
       THEN [ok |-> TRUE, file |-> files[CHOOSE f \in FilesAt(files, path, os) : TRUE],
             err |-> ""]
       ELSE [ok |-> FALSE, file |-> [columns |-> <<>>, rows |-> <<>>],
             err |-> IF IsDirectory(files, path, os)
                     THEN (IF os = "nt" THEN "PermissionError:" ELSE "IsADirectoryError:") \o line
                     ELSE IF through /\ os = "posix" THEN "NotADirectoryError:" \o line
                     ELSE "FileNotFoundError:" \o line]

\* the files after a write to a path that names no directory: the file the
\* path names is replaced, or a new one is added under the name given
WriteFile(files, path, os, file) ==
    LET old == FilesAt(files, path, os)
        name == IF old # {} THEN CHOOSE f \in old : TRUE ELSE PathParts(path, os)
    IN [f \in DOMAIN files \cup {name} |-> IF f = name THEN file ELSE files[f]]

\* '{}/INPUT/{}/{}.csv'.format(location, source, name)
CsvPath(loc, source, name) ==
    loc \o <<"/">> \o INPUT \o <<"/">> \o source \o <<"/">> \o name \o DotCsv

RECURSIVE RStrip(_, _)
RStrip(s, chars) ==
    IF s # <<>> /\ s[Len(s)] \in chars THEN RStrip(SubSeq(s, 1, Len(s) - 1), chars) ELSE s

\* glob.glob('{}/INPUT/{}/*.csv'.format(location, source)): the paths of the
\* entries of the directory whose name ends in .csv (in any case on Windows)
\* and does not start with a point, each the directory as the pattern names
\* it, the separator of the platform and the name. No case for a directory
\* with a character of glob's own in its name.
Glob(files, loc, source, os) ==
    LET head == RStrip(loc \o <<"/">> \o INPUT \o <<"/">> \o source, Seps(os))
        dir == PathKey(PathParts(head, os), os)
        names == {f[Len(dir) + 1] : f \in {g \in DOMAIN files : IsProperPrefix(dir, PathKey(g, os))}}
        Ends(name) == /\ Len(name) >= 4
                      /\ LET tail == SubSeq(name, Len(name) - 3, Len(name))
                         IN IF os = "nt" THEN Upper(tail) = <<".", "C", "S", "V">> ELSE tail = DotCsv
    IN CASE \A i \in 1..Len(head) : head[i] \notin {"*", "?", "["} ->
            {head \o <<IF os = "nt" THEN "\\" ELSE "/">> \o name :
                name \in {n \in names : Head(n) # "." /\ Ends(n)}}

\* input_file.split('\\')[-1].split('.')[0].strip()
GlobbedName(input_file) == PyStrip(BeforeFirst(AfterLast(input_file, "\\"), "."))

(***************************************************************************)
(* execute_to_csv and the functions it calls.                              *)
(***************************************************************************)
\* queries[key] = query: a key the dict has keeps its place
SetQuery(queries, key, query) ==
    IF \E i \in 1..Len(queries) : queries[i].key = key
    THEN [i \in 1..Len(queries) |->
            IF queries[i].key = key THEN [key |-> key, query |-> query] ELSE queries[i]]
    ELSE Append(queries, [key |-> key, query |-> query])

\* the loop of parse_input_sql over the lines from line i on: a line that
\* starts with -- names the key, the lines after it are gathered up to the
\* first that holds a semicolon
RECURSIVE ParseLines(_, _, _, _, _)
ParseLines(lines, i, queries, key, query) ==
    IF i > Len(lines) THEN queries
    ELSE IF StartsAt(<<"-", "-">>, lines[i], 1)
    THEN ParseLines(lines, i + 1, queries, Strip(SubSeq(lines[i], 3, Len(lines[i])), {"\n"}), query)
    ELSE IF key = <<>> THEN ParseLines(lines, i + 1, queries, key, query)
    ELSE IF ";" \in Range(lines[i])
    THEN ParseLines(lines, i + 1, SetQuery(queries, key, Strip(query \o lines[i], {"\n"})),
                    <<>>, <<>>)
    ELSE ParseLines(lines, i + 1, queries, key, query \o lines[i])

\* parse_input_sql: [ok, queries, err, out], the queries in the order of the
\* dict
parse_input_sql(file, dbg) ==
    LET out == debug_print(dbg, <<"P", "a", "r", "s", "i", "n", "g", " ", "i", "n", "p", "u",
                                  "t", " ", "S", "Q", "L", " ", "f", "i", "l", "e", ".", ".",
                                  ".">>)
    IN IF file.missing
       THEN [ok |-> FALSE, queries |-> <<>>, err |-> "FileNotFoundError:177", out |-> out]
       ELSE [ok |-> TRUE, queries |-> ParseLines(file.lines, 1, <<>>, <<>>, <<>>),
             err |-> "", out |-> out]

\* The field to_csv writes for a value of a column of a result set: None
\* is written as nothing, and next to a None or a float an int has become a
\* float when the column holds no str.
CsvField(v, column) ==
    LET numeric == \A i \in 1..Len(column) : column[i].k # "str"
        floats == \E i \in 1..Len(column) : column[i].k # "int"
    IN CASE v.k = "str" -> v.s
         [] v.k = "int" -> IF numeric /\ floats THEN PyStr(Float(v.n, 0)) ELSE IntText(v.n)
         [] v.k = "float" -> PyStr(v)
         [] v.k \in {"none", "nan"} -> <<>>

\* pd.DataFrame(results, columns=cols).to_csv(path, index=False)
ResultFile(answer) ==
    [columns |-> answer.columns,
     rows |-> [i \in 1..Len(answer.rows) |->
                [p \in 1..Len(answer.columns) |->
                    CsvField(answer.rows[i][p],
                             [r \in 1..Len(answer.rows) |-> answer.rows[r][p]])]]]

\* The loop of execute_to_csv from query i on, and the closing message:
\* [ok, files, err, out]. db gives for a statement the result set, or the
\* exception of cur.execute. The files written and the lines printed before
\* an exception stay.
RECURSIVE RunQueries(_, _, _, _, _, _, _, _)
RunQueries(queries, i, files, db, loc, os, dbg, out) ==
    IF i > Len(queries)
    THEN [ok |-> TRUE, files |-> files, err |-> "",
          out |-> out \o debug_print(dbg, <<"\n", "C", "l", "o", "s", "i", "n", "g", " ", "s",
                                            "n", "o", "w", "f", "l", "a", "k", "e", " ", "c",
                                            "o", "n", "n", "e", "c", "t", "i", "o", "n", ".",
                                            ".", ".", "\n">>)]
    ELSE LET pieces == Split(queries[i].key, "|")
             answer == db[queries[i].query]
             path == CsvPath(loc, pieces[1], pieces[2])
             running == out \o debug_print(dbg,
                                   <<"\n", " ", " ", " ", "R", "u", "n", "n", "i", "n", "g",
                                     " ", "q", "u", "e", "r", "y", " ">>
                                   \o IntText(i)
                                   \o <<" ", "o", "f", " ">>
                                   \o IntText(Len(queries)))
             saving == running \o debug_print(dbg, <<" ", " ", " ", "S", "t", "o", "r", "i",
                                                     "n", "g", " ", "r", "e", "s", "u", "l",
                                                     "t", " ", "s", "e", "t", " ", "t", "o",
                                                     " ", "d", "f", ".", ".", ".">>)
                               \o debug_print(dbg, <<" ", " ", " ", "S", "a", "v", "i", "n",
                                                     "g", " ", "t", "o", " ", "f", "i", "l",
                                                     "e", ".", ".", ".">>)
         IN IF Len(pieces) < 2
            THEN [ok |-> FALSE, files |-> files, err |-> "IndexError:118", out |-> running]
            ELSE IF ~answer.ok
            THEN [ok |-> FALSE, files |-> files, err |-> answer.err, out |-> running]
            ELSE IF IsDirectory(files, path, os)
            THEN [ok |-> FALSE, files |-> files,
                  err |-> IF os = "nt" THEN "PermissionError:128" ELSE "IsADirectoryError:128",
                  out |-> saving]
            ELSE RunQueries(queries, i + 1, WriteFile(files, path, os, ResultFile(answer)),
                            db, loc, os, dbg, saving)

\* execute_to_csv: [ok, files, err, out]. open_snowflake_connection prints
\* before it opens the credentials and connects.
execute_to_csv(sql, snow, files, loc, os, dbg) ==
    LET Connected(parsed, out) ==
            IF snow.connect # ""
            THEN [ok |-> FALSE, files |-> files, err |-> snow.connect, out |-> out]
            ELSE RunQueries(parsed.queries, 1, files, snow.answers, loc, os, dbg, out)
        Parsed(parsed) ==
            IF ~parsed.ok
            THEN [ok |-> FALSE, files |-> files, err |-> parsed.err, out |-> parsed.out]
            ELSE Connected(parsed, parsed.out
                                \o debug_print(dbg, <<"E", "s", "t", "a", "b", "l", "i", "s",
                                                      "h", "i", "n", "g", " ", "s", "n", "o",
                                                      "w", "f", "l", "a", "k", "e", " ", "c",
                                                      "o", "n", "n", "e", "c", "t", "i", "o",
                                                      "n">>))
    IN Parsed(parse_input_sql(sql, dbg))

(***************************************************************************)
(* The steps of the program.                                               *)
(***************************************************************************)
\* what a run does not change: the platform, the place of the program, the
\* installed pandas, the two switches, the query file, the database, the
\* mapping file
env == <<os_name, location, na_values, run_queries, debug, sql_file, snowflake, json_dict>>

\* main, lines 64-65 with run_queries set: execute_to_csv rewrites input files
ExecuteToCsv ==
    /\ pc = "start"
    /\ run_queries
    /\ \E r \in {execute_to_csv(sql_file, snowflake, input_files, location, os_name, debug)} :
          /\ input_files' = r.files
          /\ stdout' = stdout \o r.out
          /\ pc' = IF r.ok THEN "main" ELSE "raised"
          /\ error' = r.err
    /\ UNCHANGED <<env, table_dict, table, rule_idx, first_run, open_modes, report_file,
                   output, x, result>>

\* main, lines 64-65 with run_queries not set
SkipQueries ==
    /\ pc = "start"
    /\ ~run_queries
    /\ pc' = "main"
    /\ UNCHANGED <<env, error, table_dict, input_files, table, rule_idx, first_run,
                   open_modes, report_file, output, stdout, x, result>>

\* main, the entry 'ALL' of a source: the csv files of the source directory
\* are listed, in the order the directory gives them, and each becomes a
\* table named after its path. Nothing is printed for the entry itself.
GlobAll ==
    /\ pc = "main"
    /\ table_dict # <<>>
    /\ ~Head(table_dict).globbed
    /\ Head(table_dict).table = ALL
    /\ \E found \in Orderings(Glob(input_files, location, Head(table_dict).source, os_name)) :
            table_dict' = [i \in 1..Len(found) |->
                                [source |-> Head(table_dict).source,
                                 table |-> GlobbedName(found[i]),
                                 globbed |-> TRUE]] \o Tail(table_dict)
    /\ UNCHANGED <<env, pc, error, input_files, table, rule_idx, first_run, open_modes,
                   report_file, output, stdout, x, result>>

\* main, one iteration for a named table or a listed file: an empty table
\* name in table_dict is skipped; otherwise the name is printed as it stands
\* and the table object is constructed under the name in capitals, up to the
\* rule loop (DB_Table.__init__: the two csv files, the mapping file, the
\* renaming, the common columns in some order, the message of line 443).
NewTable ==
    /\ pc = "main"
    /\ table_dict # <<>>
    /\ ~(~Head(table_dict).globbed /\ Head(table_dict).table = ALL)
    /\ LET source == Head(table_dict).source
           name == Upper(Head(table_dict).table)
           named == stdout \o debug_print(debug, Head(table_dict).table)
           src == OpenFile(input_files, CsvPath(location, source, name), os_name, "432")
           snow == OpenFile(input_files, CsvPath(location, SNOWFLAKE, name), os_name, "433")
           loaded == [NoTable EXCEPT !.name = name, !.source = source,
                                     !.source_df = ReadCsv(src.file, na_values),
                                     !.snow_df = ReadCsv(snow.file, na_values)]
           mapped == rename_source_columns(read_mapping_file(loaded, json_dict, 1))
       IN IF ~Head(table_dict).globbed /\ Head(table_dict).table = <<>>
          THEN UNCHANGED <<pc, error, table, rule_idx, stdout>>
          ELSE IF ~src.ok
          THEN /\ pc' = "raised" /\ error' = src.err /\ stdout' = named
               /\ UNCHANGED <<table, rule_idx>>
          ELSE IF ~snow.ok
          THEN /\ pc' = "raised" /\ error' = snow.err /\ stdout' = named
               /\ UNCHANGED <<table, rule_idx>>
          ELSE /\ \E cc \in Orderings(CommonColumnSet(mapped)) :
                    table' = [mapped EXCEPT !.common_columns = cc]
               /\ rule_idx' = 1
               /\ pc' = "rules"
               /\ stdout' = named \o debug_print(debug, <<"A", "p", "p", "l", "y", "i", "n",
                                                          "g", " ", "r", "u", "l", "e", "s",
                                                          ".", ".", ".">>)
               /\ UNCHANGED error
    /\ table_dict' = Tail(table_dict)
    /\ UNCHANGED <<env, input_files, first_run, open_modes, report_file, output, x, result>>

\* DB_Table.__init__, one iteration of the loop over self.column_rules
ApplyRule ==
    /\ pc = "rules"
    /\ rule_idx <= Len(table.column_rules)
    /\ \E r \in {apply_rule(table, table.column_rules[rule_idx], debug)} :
          /\ stdout' = stdout \o r.out
          /\ IF r.ok
             THEN table' = r.table /\ rule_idx' = rule_idx + 1 /\ UNCHANGED <<pc, error>>
             ELSE pc' = "raised" /\ error' = r.err /\ UNCHANGED <<table, rule_idx>>
    /\ UNCHANGED <<env, table_dict, input_files, first_run, open_modes,
                   report_file, output, x, result>>

\* DB_Table.__init__ after the loop
FinishInit ==
    /\ pc = "rules"
    /\ rule_idx > Len(table.column_rules)
    /\ table' = IF table.source = DATAVISION THEN dv_none_rule(table) ELSE table
    /\ pc' = "compare"
    /\ UNCHANGED <<env, error, table_dict, input_files, rule_idx, first_run,
                   open_modes, report_file, output, stdout, x, result>>

\* compare(table_obj), report included. The table object is kept in the state
\* until the next one replaces it.
Compare ==
    /\ pc = "compare"
    /\ \E c \in {compare(table, debug)} :
       \E r \in {report(table, c.output.counts, first_run, report_file, debug)} :
          /\ output' = c.output
          /\ IF ~c.ok
             THEN /\ pc' = "raised"
                  /\ error' \in c.errs
                  /\ stdout' = stdout \o c.out
                  /\ UNCHANGED <<first_run, open_modes, report_file>>
             ELSE /\ first_run' = r.first_run
                  /\ stdout' = stdout \o c.out \o r.out
                  /\ open_modes' = Append(open_modes, r.mode)
                  /\ report_file' = r.file
                  /\ pc' = IF r.ok THEN "main" ELSE "raised"
                  /\ error' = r.err
    /\ UNCHANGED <<env, table_dict, input_files, table, rule_idx, x, result>>

\* main, the loop is over
MainExit ==
    /\ pc = "main"
    /\ table_dict = <<>>
    /\ pc' = "done"
    /\ UNCHANGED <<env, error, table_dict, input_files, table, rule_idx,
                   first_run, open_modes, report_file, output, stdout, x, result>>

\* a call of cast_int on one cell
CallCastInt ==
    /\ pc = "call"
    /\ result' = cast_int(x)
    /\ pc' = "returned"
    /\ UNCHANGED <<env, error, table_dict, input_files, table, rule_idx,
                   first_run, open_modes, report_file, output, stdout, x>>

Next ==
    \/ ExecuteToCsv \/ SkipQueries \/ GlobAll \/ NewTable \/ ApplyRule
    \/ FinishInit \/ Compare \/ MainExit \/ CallCastInt

(***************************************************************************)
(* The inputs: the files the program finds, drawn from small sets.         *)
(***************************************************************************)
SeqsUpTo(S, n) == UNION {[1..k -> S] : k \in 0..n}

PkId == <<"ID">>
ORACLE == <<"O", "R", "A", "C", "L", "E">>

\* one configuration entry of column_mappings.json
Entry(key, columns, rules, pk) == [key |-> key, Columns |-> columns, Rules |-> rules, PK |-> pk]
Rule(target, column, operation, value) ==
    [target |-> target, column |-> column, operation |-> operation, value |-> value]

\* one input csv file, its place under INPUT/ and the entry of table_dict
CsvFile(columns, rows) == [columns |-> columns, rows |-> rows]
Stored(loc, os, source, file) ==
    PathParts(loc \o <<"/">> \o INPUT \o <<"/">> \o source \o <<"/">> \o file, os)
Named(source, name) == [source |-> source, table |-> name, globbed |-> FALSE]

NoSql == [missing |-> FALSE, lines |-> <<>>]
NoDatabase == [connect |-> "", answers |-> <<>>]

Idle ==
    /\ error = ""
    /\ first_run = TRUE
    /\ open_modes = <<>>
    /\ report_file = <<>>
    /\ output = NoOutput
    /\ rule_idx = 1
    /\ result = Return(NULL)

\* Linux, the program in /w, a pandas that reads None as text, the switches
\* as the program sets them, no query to run
Plain ==
    /\ os_name = "posix"
    /\ location = <<"/", "w">>
    /\ na_values = NaStrings
    /\ run_queries = TRUE
    /\ debug = TRUE
    /\ sql_file = NoSql
    /\ snowflake = NoDatabase

\* the table object of a table T of ORACLE once every rule is applied
RECURSIVE ApplyAll(_, _)
ApplyAll(self, i) ==
    IF i > Len(self.column_rules) THEN self
    ELSE ApplyAll(apply_rule(self, self.column_rules[i], TRUE).table, i + 1)

Constructed(source_file, snow_file, na, jd, cc) ==
    LET loaded == [NoTable EXCEPT !.name = <<"T">>, !.source = ORACLE,
                                  !.source_df = ReadCsv(source_file, na),
                                  !.snow_df = ReadCsv(snow_file, na)]
        mapped == rename_source_columns(read_mapping_file(loaded, jd, 1))
    IN ApplyAll([mapped EXCEPT !.common_columns = cc], 1)

\* --- a constructed table about to be compared ---
\* records of <<ID, A>>: keys repeat and are missing, the other column varies
JoinRows == {<<id, a>> : id \in {<<>>, <<"1">>}, a \in {<<"a">>, <<"b">>}}
\* records of <<ID, A, B>>: fields agree, differ and are missing on either side
OverlapSourceRows == {<<<<"1">>, a, b>> : a \in {<<>>, <<"a">>}, b \in {<<"a">>, <<"b">>}}
OverlapSnowRows ==
    {<<<<"1">>, <<>>, <<"a">>>>, <<<<"1">>, <<"a">>, <<"a">>>>, <<<<"2">>, <<"a">>, <<"a">>>>}
\* records of <<ID>>: no column beside the key
KeyOnlyRows == {<<id>> : id \in {<<>>, <<"1">>, <<"2">>}}
\* records of <<ID, A>> for the rules that turn a column into numbers
TypedRows == {<<<<"7">>, <<"1">>>>, <<<<"8">>, <<"x">>>>, <<<<"0", "7">>, <<"2">>>>}
TypedRules ==
    {<<Rule("source", "ID", "cast_int", Absent)>>,
     <<Rule("source", "ID", "cast_int", Absent), Rule("snow", "ID", "cast_int", Absent)>>,
     <<Rule("source", "ID", "cast_int", Absent), Rule("snow", "ID", "round", IntCell(0))>>,
     <<Rule("source", "A", "cast_int", Absent)>>,
     <<Rule("snow", "A", "cast_int", Absent), Rule("source", "A", "none", Absent)>>}

CompareInputs ==
    {[pk |-> pk, rules |-> <<>>, cc |-> <<"ID", "A">>,
      source |-> CsvFile(<<"ID", "A">>, l), snow |-> CsvFile(<<"ID", "A">>, r)] :
        pk \in {PkId, <<"ID", "A">>},
        l \in SeqsUpTo(JoinRows, MaxRows), r \in SeqsUpTo(JoinRows, MaxRows)}
    \cup
    {[pk |-> PkId, rules |-> <<>>, cc |-> cc,
      source |-> CsvFile(<<"ID", "A", "B">>, l), snow |-> CsvFile(<<"ID", "A", "B">>, r)] :
        cc \in Orderings({"ID", "A", "B"}),
        l \in SeqsUpTo(OverlapSourceRows, MaxRows), r \in SeqsUpTo(OverlapSnowRows, MaxRows)}
    \cup
    {[pk |-> PkId, rules |-> <<>>, cc |-> <<"ID">>,
      source |-> CsvFile(<<"ID">>, l),
      snow |-> CsvFile(<<"ID", "TSTAMP">>, [i \in 1..Len(r) |-> r[i] \o <<<<"9">>>>])] :
        l \in SeqsUpTo(KeyOnlyRows, MaxRows), r \in SeqsUpTo(KeyOnlyRows, MaxRows)}
    \cup
    {[pk |-> PkId, rules |-> rules, cc |-> <<"ID", "A">>,
      source |-> CsvFile(<<"ID", "A">>, l), snow |-> CsvFile(<<"ID", "A">>, r)] :
        rules \in TypedRules,
        l \in SeqsUpTo(TypedRows, MaxRows), r \in SeqsUpTo(TypedRows, MaxRows)}

InitCompare ==
    /\ x = NULL
    /\ pc = "compare"
    /\ Idle
    /\ Plain
    /\ table_dict = <<>>
    /\ \E inp \in CompareInputs :
        /\ json_dict = <<Entry(<<"T">>, <<>>, inp.rules, inp.pk)>>
        /\ input_files = (Stored(location, os_name, ORACLE, <<"T", ".", "c", "s", "v">>) :> inp.source)
                            @@ (Stored(location, os_name, SNOWFLAKE, <<"T", ".", "c", "s", "v">>) :> inp.snow)
        /\ table = Constructed(inp.source, inp.snow, na_values, json_dict, inp.cc)
    \* printed so far: by execute_to_csv, then the name and the message of line 443
    /\ stdout = execute_to_csv(sql_file, snowflake, input_files, location, os_name, debug).out
                    \o <<<<"T">>, <<"A", "p", "p", "l", "y", "i", "n", "g", " ", "r", "u", "l",
                                  "e", "s", ".", ".", ".">>>>

\* --- a run that constructs one table: the configuration varies ---
ConfigEntries ==
    {Entry(<<"A">>, <<<<"a", "A">>>>, <<Rule("source", "A", "capitalize", Absent)>>, PkId),
     Entry(<<"B">>, <<>>, <<Rule("snow", "A", "append", StrCell(<<"x">>))>>, <<"A">>),
     Entry(<<"A", "B">>, <<<<"a", "B">>>>, <<>>, <<"ID", "A">>),
     Entry(<<"b">>, <<<<"ID", "KEY">>>>, <<Rule("snow", "ID", "cast_int", Absent)>>, <<"KEY">>)}

SmallSource == CsvFile(<<"ID", "a">>, <<<<<<"1">>, <<"a">>>>>>)
SmallSnow == CsvFile(<<"ID", "A", "TSTAMP">>, <<<<<<"1">>, <<"A">>, <<"9">>>>>>)

InitConfig ==
    /\ x = NULL
    /\ pc = "main"
    /\ Idle
    /\ Plain
    /\ table = NoTable
    /\ \E name \in {<<"a", "b">>, <<"b">>, <<"b", "a">>, <<"c">>} :
        /\ table_dict = <<Named(ORACLE, name)>>
        /\ input_files =
                (Stored(location, os_name, ORACLE, Upper(name) \o DotCsv) :> SmallSource)
                @@ (Stored(location, os_name, SNOWFLAKE, Upper(name) \o DotCsv) :> SmallSnow)
    /\ json_dict \in {jd \in SeqsUpTo(ConfigEntries, MaxConfig) :
                        \A i, j \in 1..Len(jd) : jd[i].key = jd[j].key => i = j}
    \* printed so far: by execute_to_csv, which found no query
    /\ stdout = execute_to_csv(sql_file, snowflake, input_files, location, os_name, debug).out

\* --- a run that constructs one table: the rules vary ---
RuleSet ==
    {Rule("source", "A", "append", StrCell(<<"x">>)),
     Rule("source", "A", "prepend", IntCell(7)),
     Rule("source", "A", "strip", StrCell(<<"0">>)),
     Rule("source", "B", "capitalize", Absent),
     Rule("snow", "A", "trunc_date", Absent),
     Rule("source", "A", "cast_int", Absent),
     Rule("source", "B", "cast_int", Absent),        \* int() fails on the second row
     Rule("source", "ID", "cast_int", Absent),       \* the key becomes int64
     Rule("snow", "B", "round", IntCell(2)),
     Rule("snow", "B", "round", IntCell(-1)),
     Rule("snow", "A", "round", None),               \* round() fails on the third row
     Rule("snow", "B", "round", StrCell(<<"2">>)),     \* round() takes no str
     Rule("snow", "A", "none", Absent),
     Rule("source", "A", "append", Absent),          \* no value to append
     Rule("source", "A", "upper", Absent),           \* no such operation
     Rule("snow", "A", "Append", StrCell(<<"x">>)),    \* no such operation
     Rule("source", "Z", "append", StrCell(<<"x">>)),  \* no such column
     Rule("snow", "ID ", "cast_int", Absent)}        \* no such column

RuleSource ==
    CsvFile(<<"ID", "A", "B">>,
            <<<<<<"1">>, <<"0", "0", "7">>, <<"ß", "é">>>>,
              <<<<"2">>, <<"a", " ", "b">>, <<"0", "²">>>>>>)
RuleSnow ==
    CsvFile(<<"ID", "A", "B">>,
            <<<<<<"1">>, <<"7">>, <<"2", ".", "6", "7", "5">>>>,
              <<<<"2">>, <<"N", "o", "n", "e">>, <<"-", "1", ".", "5", "E", "1">>>>,
              <<<<"3">>, <<>>, <<"\t", "1", "_", "7", ".", "5", "\n">>>>>>)

InitRules ==
    /\ x = NULL
    /\ pc = "main"
    /\ Idle
    /\ os_name = "posix"
    /\ location = <<"/", "w">>
    /\ na_values = NaStrings
    /\ run_queries = TRUE
    /\ debug \in BOOLEAN
    /\ sql_file = NoSql
    /\ snowflake = NoDatabase
    /\ table = NoTable
    /\ \E source \in {ORACLE, DATAVISION} :
        /\ table_dict = <<Named(source, <<"t">>)>>
        /\ input_files = (Stored(location, os_name, source, <<"T", ".", "c", "s", "v">>) :> RuleSource)
                            @@ (Stored(location, os_name, SNOWFLAKE, <<"T", ".", "c", "s", "v">>) :> RuleSnow)
    /\ \E rules \in SeqsUpTo(RuleSet, MaxRules) : json_dict = <<Entry(<<"T">>, <<>>, rules, PkId)>>
    \* printed so far: by execute_to_csv, which found no query
    /\ stdout = execute_to_csv(sql_file, snowflake, input_files, location, os_name, debug).out

\* --- a run over several tables, without queries ---
RunFiles ==
    {[source |-> CsvFile(<<"ID", "A">>, <<<<<<"1">>, <<"a">>>>>>),         \* one matched row
      snow |-> CsvFile(<<"ID", "A">>, <<<<<<"1">>, <<"b">>>>>>)],
     [source |-> CsvFile(<<"ID", "A">>, <<<<<<"1">>, <<"a">>>>>>),         \* no matched row
      snow |-> CsvFile(<<"ID", "A">>, <<<<<<"2">>, <<"a">>>>>>)],
     [source |-> CsvFile(<<"ID">>, <<>>),                              \* no row at all
      snow |-> CsvFile(<<"ID">>, <<>>)],
     [source |-> CsvFile(<<"ID">>, <<<<<<"1">>>>, <<<<"1">>>>>>),          \* a repeated key
      snow |-> CsvFile(<<"ID">>, <<>>)]}

TableName(i) == <<"t">> \o IntText(i)

\* the files of the tables 1..n, the i-th of the kind kinds[i], the snowflake
\* file of the table without left out
RECURSIVE FilesOf(_, _, _, _, _)
FilesOf(loc, os, kinds, n, without) ==
    IF n = 0 THEN <<>>
    ELSE LET file == Upper(TableName(n)) \o DotCsv
             rest == FilesOf(loc, os, kinds, n - 1, without)
         IN IF n = without
            THEN (Stored(loc, os, ORACLE, file) :> kinds[n].source) @@ rest
            ELSE (Stored(loc, os, ORACLE, file) :> kinds[n].source)
                 @@ (Stored(loc, os, SNOWFLAKE, file) :> kinds[n].snow) @@ rest

InitRun ==
    /\ x = NULL
    /\ pc = "start"
    /\ Idle
    /\ os_name = "posix"
    /\ location = <<"/", "w">>
    /\ na_values = NaStrings
    /\ run_queries = FALSE
    /\ debug \in BOOLEAN
    /\ stdout = <<>>
    /\ sql_file = NoSql
    /\ snowflake = NoDatabase
    /\ table = NoTable
    /\ json_dict = <<Entry(<<"T">>, <<>>, <<Rule("snow", "A", "none", Absent)>>, PkId)>>
    /\ \E n \in 1..MaxTables :
        /\ \E kinds \in [1..n -> RunFiles], without \in 0..n :
                input_files = FilesOf(location, os_name, kinds, n, without)
        /\ \E skip \in 0..n :
            table_dict = [i \in 1..n |->
                            Named(ORACLE, IF i = skip THEN <<>> ELSE TableName(i))]

\* --- a run that starts with the queries ---
SqlFiles ==
    {[missing |-> TRUE, lines |-> <<>>],
     [missing |-> FALSE,
      lines |-> <<<<"-", "-", "O", "R", "A", "C", "L", "E", "|", "T", "1", "\n">>,
                  <<"s", "e", "l", "e", "c", "t", " ", "1", ";", "\n">>>>],
     [missing |-> FALSE,
      lines |-> <<<<"-", "-", " ", "a", " ", "c", "o", "m", "m", "e", "n", "t", "\n">>,
                  <<"-", "-", "S", "N", "O", "W", "F", "L", "A", "K", "E", "|", "T", "1", "\n">>,
                  <<"s", "e", "l", "e", "c", "t", "\n">>,
                  <<"2", ";", "\n">>,
                  <<"\n">>,
                  <<"-", "-", "O", "R", "A", "C", "L", "E", "|", "t", "1", "\n">>,
                  <<"\n">>,
                  <<"s", "e", "l", "e", "c", "t", " ", "1", ";">>>>],
     [missing |-> FALSE,
      lines |-> <<<<"-", "-", "O", "R", "A", "C", "L", "E", "|", "T", "1", "\n">>,
                  <<"s", "e", "l", "e", "c", "t", " ", "1", ";", "\n">>,
                  <<"-", "-", "A", "|", "B", "\n">>,
                  <<"s", "e", "l", "e", "c", "t", "\n">>,
                  <<"-", "-", "O", "R", "A", "C", "L", "E", "|", "T", "1", "\n">>,
                  <<"2", ";", "\n">>>>],
     [missing |-> FALSE,
      lines |-> <<<<"s", "e", "l", "e", "c", "t", " ", "1", ";", "\n">>,
                  <<"-", "-", "T", "1", "\n">>,
                  <<"s", "e", "l", "e", "c", "t", " ", "1", ";", "\n">>>>]}

Statements ==
    {<<"s", "e", "l", "e", "c", "t", " ", "1", ";">>,
     <<"s", "e", "l", "e", "c", "t", "\n", "2", ";">>}

Answers ==
    {[ok |-> TRUE, err |-> "", columns |-> <<"ID", "A">>,
      rows |-> <<<<IntCell(1), StrCell(<<"a">>)>>, <<None, StrCell(<<"N", "A">>)>>>>],
     [ok |-> TRUE, err |-> "", columns |-> <<"ID", "A">>,
      rows |-> <<<<IntCell(1), StrCell(<<"N", "o", "n", "e">>)>>>>],
     [ok |-> TRUE, err |-> "", columns |-> <<"ID">>, rows |-> <<>>],
     [ok |-> FALSE, err |-> "ProgrammingError:119", columns |-> <<>>, rows |-> <<>>]}

Databases ==
    {[connect |-> "FileNotFoundError:149", answers |-> <<>>],
     [connect |-> "DatabaseError:152", answers |-> <<>>]}
    \cup {[connect |-> "",
            answers |-> [s \in Statements |->
                            IF s = <<"s", "e", "l", "e", "c", "t", " ", "1", ";">> THEN a ELSE b]] :
            a \in Answers, b \in Answers}

InitQueries ==
    /\ x = NULL
    /\ pc = "start"
    /\ Idle
    /\ os_name \in {"posix", "nt"}
    /\ location = IF os_name = "nt" THEN <<"C", ":", "\\", "w">> ELSE <<"/", "w">>
    /\ na_values \in {NaStrings, NaStrings \cup {<<"N", "o", "n", "e">>}}
    /\ run_queries = TRUE
    /\ debug \in BOOLEAN
    /\ stdout = <<>>
    /\ sql_file \in SqlFiles
    /\ snowflake \in Databases
    /\ table = NoTable
    /\ json_dict = <<Entry(<<"T">>, <<>>, <<>>, PkId)>>
    /\ table_dict = <<Named(ORACLE, <<"t", "1">>)>>
    /\ \E kind \in RunFiles :
            input_files = FilesOf(location, os_name, <<kind>>, 1, 0)

\* --- a run over all the files of a source directory ---
GlobFiles(loc, os) ==
    {Stored(loc, os, ORACLE, <<"T", "1", ".", "c", "s", "v">>),
     Stored(loc, os, ORACLE, <<"t", "2", ".", "C", "S", "V">>),
     Stored(loc, os, ORACLE, <<" ", "a", ".", "b", ".", "c", "s", "v">>),
     Stored(loc, os, ORACLE, <<".", "h", ".", "c", "s", "v">>),
     Stored(loc, os, ORACLE, <<"T", "1", ".", "t", "x", "t">>),
     Stored(loc, os, ORACLE, <<"D", ".", "c", "s", "v", "/", "x", ".", "c", "s", "v">>),
     \* on Linux the table of a listed file is named after its whole path
     Stored(loc, os, ORACLE,
            IF os = "posix"
            THEN Upper(loc) \o <<"/">> \o INPUT \o <<"/">> \o ORACLE \o <<"/", "T", "1", ".",
                                                                          "c", "s", "v">>
            ELSE <<"T", "3", ".", "c", "s", "v">>),
     \* a file where that path goes through
     Stored(loc, os, ORACLE, IF os = "posix" THEN Tail(Upper(loc)) ELSE <<"T", "1">>)}

InitGlob ==
    /\ x = NULL
    /\ pc = "main"
    /\ Idle
    /\ os_name \in {"posix", "nt"}
    /\ location \in (IF os_name = "nt" THEN {<<"C", ":", "\\", "w">>}
                     ELSE {<<"/", "w">>, <<"/", "w", ".", "d">>})
    /\ na_values = NaStrings
    /\ run_queries = TRUE
    /\ debug = TRUE
    /\ sql_file = NoSql
    /\ snowflake = NoDatabase
    /\ table = NoTable
    /\ json_dict = <<Entry(<<"T">>, <<>>, <<>>, PkId)>>
    /\ table_dict \in {<<Named(ORACLE, ALL)>>, <<Named(ORACLE, <<"a", "l", "l">>)>>,
                       <<Named(SNOWFLAKE, ALL), Named(ORACLE, <<"t", "1">>)>>}
    /\ \E found \in SUBSET GlobFiles(location, os_name) :
        /\ Cardinality(found) <= MaxFiles
        /\ \A f, g \in found : ~IsProperPrefix(f, g)
        /\ \E snows \in SUBSET {Stored(location, os_name, SNOWFLAKE, <<"T", "1", ".", "c", "s",
                                                                       "v">>),
                                Stored(location, os_name, SNOWFLAKE, <<"A", ".", "c", "s", "v">>),
                                Stored(location, os_name, SNOWFLAKE,
                                       IF os_name = "posix" THEN Tail(Upper(location))
                                       ELSE <<"T", "1">>),
                                Stored(location, os_name, SNOWFLAKE,
                                       IF os_name = "posix"
                                       THEN Upper(location) \o <<"/">> \o INPUT \o <<"/">>
                                                \o ORACLE \o <<"/", "T", "1", ".", "c", "s", "v">>
                                       ELSE <<"T", "3", ".", "c", "s", "v">>)} :
                /\ \A f, g \in snows : ~IsProperPrefix(f, g)
                /\ input_files = [f \in found \cup snows |->
                                    CsvFile(<<"ID">>, <<<<<<"1">>>>>>)]
    \* printed so far: by execute_to_csv, which found no query
    /\ stdout = execute_to_csv(sql_file, snowflake, input_files, location, os_name, debug).out

\* --- a direct call of cast_int ---
CastChars == {"0", "7", "a", "²"}

InitCast ==
    /\ pc = "call"
    /\ Idle
    /\ Plain
    /\ table = NoTable
    /\ table_dict = <<>>
    /\ input_files = <<>>
    /\ json_dict = <<>>
    /\ stdout = <<>>
    /\ x \in {NULL, IntCell(7), FloatCell(75, -1)}
                \cup {StrCell(s) : s \in SeqsUpTo(CastChars, MaxLen)}

Init == InitCompare \/ InitConfig \/ InitRules \/ InitRun \/ InitQueries \/ InitGlob \/ InitCast

Spec == Init /\ [][Next]_vars

(***************************************************************************)
(* The properties.                                                         *)
(***************************************************************************)
\* compare was called on the table in the state and got past the merge: the
\* csv files and the counts in output are those of this table
JoinDone ==
    \/ pc \in {"main", "done"} /\ table # NoTable
    \/ pc = "raised" /\ error \in {"ZeroDivisionError:309", "ZeroDivisionError:340"}

Src == table.source_df
Ref == table.snow_df
SrcKey(i) == [c \in 1..Len(table.primary_key) |-> Src.rows[i][ColPos(Src, table.primary_key[c])]]
RefKey(j) == [c \in 1..Len(table.primary_key) |-> Ref.rows[j][ColPos(Ref, table.primary_key[c])]]
SrcIdx == 1..Len(Src.rows)
RefIdx == 1..Len(Ref.rows)

\* two cells hold the same value: the same cell, or the same number
IsNumber(c) == c.k \in {"int", "float", "negzero"}
SameValue(a, b) == a = b \/ (IsNumber(a) /\ IsNumber(b) /\ Float(a.n, a.e) = Float(b.n, b.e))
SameCells(r, s) == Len(r) = Len(s) /\ \A p \in 1..Len(r) : SameValue(r[p], s[p])

RefCount(i) == Cardinality({j \in RefIdx : SameCells(RefKey(j), SrcKey(i))})
SrcCount(j) == Cardinality({i \in SrcIdx : SameCells(SrcKey(i), RefKey(j))})
Matched == output.counts.identical_records
SourceOnly == output.counts.unique_source
ReferenceOnly == output.counts.unique_snow

Max2(a, b) == IF a >= b THEN a ELSE b

RECURSIVE SumOver(_, _)
SumOver(f, n) == IF n = 0 THEN 0 ELSE f[n] + SumOver(f, n - 1)

IsPrefix(a, b) == Len(a) <= Len(b) /\ SubSeq(b, 1, Len(a)) = a

\* every key cell of both datasets holds a value
KeysPresent ==
    /\ \A i \in SrcIdx : \A c \in 1..Len(table.primary_key) : SrcKey(i)[c] # NULL
    /\ \A j \in RefIdx : \A c \in 1..Len(table.primary_key) : RefKey(j)[c] # NULL

\* C1 as stated: after the outer join, matched + source-only = |source| and
\* matched + reference-only = |reference|, for any datasets, repeated keys
\* included (read here for the datasets without a null key cell).
C1_CountsPartition ==
    (JoinDone /\ KeysPresent) =>
        /\ Matched + SourceOnly = Len(Src.rows)
        /\ Matched + ReferenceOnly = Len(Ref.rows)

\* C1 amended: matched + source-only counts every source row once per
\* reference row with its key, and once when there is none; so it is |source|
\* whenever no key of a source row is repeated in the reference dataset. The
\* same with the sides exchanged.
C1_CountsWithDuplicates ==
    JoinDone =>
        /\ Matched + SourceOnly = SumOver([i \in SrcIdx |-> Max2(1, RefCount(i))], Len(Src.rows))
        /\ Matched + ReferenceOnly = SumOver([j \in RefIdx |-> Max2(1, SrcCount(j))], Len(Ref.rows))
        /\ (\A i \in SrcIdx : RefCount(i) <= 1) => Matched + SourceOnly = Len(Src.rows)
        /\ (\A j \in RefIdx : SrcCount(j) <= 1) => Matched + ReferenceOnly = Len(Ref.rows)

\* a key repeated in the source and single in the reference: the source side
\* adds up, with matched and reference-only rows present
C1_Witness ==
    /\ JoinDone
    /\ \E i, j \in SrcIdx : i # j /\ SrcKey(i) = SrcKey(j)
    /\ \A i \in SrcIdx : RefCount(i) <= 1
    /\ Matched >= 2
    /\ ReferenceOnly >= 1
    /\ Matched + SourceOnly = Len(Src.rows)

\* C2: rows are classified by key value alone: the matched rows are the pairs
\* of a source row and a reference row with equal keys (so their count is the
\* sum over keys of the product of the two multiplicities), each pairing the
\* cells of those two rows whatever the other columns hold; the source-only
\* rows are the source rows whose key no reference row has, and likewise the
\* reference-only rows.
C2_KeyOnlyJoin ==
    JoinDone =>
        LET pairs == {p \in SrcIdx \X RefIdx : SameCells(SrcKey(p[1]), RefKey(p[2]))}
            srcOnly == {i \in SrcIdx : RefCount(i) = 0}
            refOnly == {j \in RefIdx : SrcCount(j) = 0}
        IN /\ Matched = Cardinality(pairs)
           /\ BagCardinality(output.identical) = Matched
           /\ \A p \in pairs : \E m \in DOMAIN output.identical :
                    SameCells(m.xs, Src.rows[p[1]]) /\ SameCells(m.ys, Ref.rows[p[2]])
           /\ \A m \in DOMAIN output.identical :
                    output.identical[m] = Cardinality({p \in pairs :
                        SameCells(m.xs, Src.rows[p[1]]) /\ SameCells(m.ys, Ref.rows[p[2]])})
           /\ SourceOnly = Cardinality(srcOnly)
           /\ BagCardinality(output.unique_source) = SourceOnly
           /\ \A m \in DOMAIN output.unique_source :
                    output.unique_source[m] = Cardinality({i \in srcOnly : SameCells(m.xs, Src.rows[i])})
           /\ ReferenceOnly = Cardinality(refOnly)
           /\ BagCardinality(output.unique_snow) = ReferenceOnly
           /\ \A m \in DOMAIN output.unique_snow :
                    output.unique_snow[m] = Cardinality({j \in refOnly : SameCells(m.ys, Ref.rows[j])})

\* a repeated key makes more matched rows than either side has rows, and a
\* matched row pairs two rows that differ outside the key
C2_Witness ==
    /\ JoinDone
    /\ table.primary_key = PkId
    /\ Matched > Len(Src.rows)
    /\ Matched > Len(Ref.rows)
    /\ \E m \in DOMAIN output.identical : m.xs # m.ys
    /\ SourceOnly = 0

\* C3 as stated: per side, the flagged rows are all the rows whose key occurs
\* more than once in that side's dataset, first occurrence included (read
\* here for the datasets without a null key cell).
C3_AllMembersFlagged ==
    (JoinDone /\ KeysPresent) =>
        /\ Len(output.source_dupes)
                = Cardinality({i \in SrcIdx : \E j \in SrcIdx : j # i /\ SrcKey(j) = SrcKey(i)})
        /\ Len(output.snow_dupes)
                = Cardinality({i \in RefIdx : \E j \in RefIdx : j # i /\ RefKey(j) = RefKey(i)})

\* C3 amended: per side, the flagged rows are, in order, the rows whose key
\* an earlier row of that same dataset has (every member of a repeated key
\* group but its first); neither result reads the other side.
C3_LaterMembersFlagged ==
    JoinDone =>
        LET srcLater == SelectSeq([i \in SrcIdx |-> i],
                            LAMBDA i : \E j \in 1..(i - 1) : SrcKey(j) = SrcKey(i))
            refLater == SelectSeq([i \in RefIdx |-> i],
                            LAMBDA i : \E j \in 1..(i - 1) : RefKey(j) = RefKey(i))
        IN /\ output.source_dupes = [m \in 1..Len(srcLater) |-> Src.rows[srcLater[m]]]
           /\ output.snow_dupes = [m \in 1..Len(refLater) |-> Ref.rows[refLater[m]]]
           /\ output.counts.source_duplicates = Len(srcLater)
           /\ output.counts.snow_duplicates = Len(refLater)

\* a source with a repeated key next to a reference without one: one source
\* row is flagged, the second of the pair
C3_Witness ==
    /\ JoinDone
    /\ Len(Src.rows) = 2
    /\ SrcKey(1) = SrcKey(2)
    /\ output.source_dupes = <<Src.rows[2]>>
    /\ Len(Ref.rows) = 2
    /\ output.snow_dupes = <<>>

\* the columns column_overlap iterates over
OverlapColumns == {c \in Range(table.common_columns) : c \notin Range(table.primary_key)}

\* C4: with no matched row and a common column outside the key, compare does
\* not raise, reports a defined result and reaches the report (read here for
\* two datasets that both have rows).
C4_NoMatchNoRaise ==
    (JoinDone /\ OverlapColumns # {} /\ Matched = 0 /\ SrcIdx # {} /\ RefIdx # {}) =>
        /\ pc # "raised"
        /\ report_file # <<>>

\* C5: with no row on either side, and the column overlap passed, the report
\* is produced without raising.
C5_NoRowsNoRaise ==
    (JoinDone /\ Len(Src.rows) = 0 /\ Len(Ref.rows) = 0 /\ error # "ZeroDivisionError:309") =>
        /\ pc # "raised"
        /\ report_file # <<>>

\* the column overlap was computed for the table in the state
OverlapDone ==
    \/ pc \in {"main", "done"} /\ table # NoTable
    \/ pc = "raised" /\ error = "ZeroDivisionError:340"

Lines == output.counts.column_overlap
\* v is e/m rounded to two decimals, in hundredths
IsRounded(v, e, m) == 2 * Abs(100 * e - v * m) <= m
\* the matched rows, one for each copy
MatchedRows == UNION {{<<m, k>> : k \in 1..output.identical[m]} : m \in DOMAIN output.identical}
AgreeingRows(c) ==
    Cardinality({r \in MatchedRows : SameValue(r[1].xs[ColPos(Src, c)], r[1].ys[ColPos(Ref, c)])})
BothPresentAgreeingRows(c) ==
    Cardinality({r \in MatchedRows :
        /\ SameValue(r[1].xs[ColPos(Src, c)], r[1].ys[ColPos(Ref, c)])
        /\ r[1].xs[ColPos(Src, c)] # NULL})

\* C6: for a matched set that is not empty, the reported columns are the
\* common columns outside the key, each once, each with round(E/M, 2) where E
\* counts the matched rows whose two values in the column are equal, and the
\* lines ascend by that value.
C6_OverlapRatio ==
    (OverlapDone /\ Matched > 0) =>
        /\ {Lines[i].column : i \in 1..Len(Lines)} = OverlapColumns
        /\ Len(Lines) = Cardinality(OverlapColumns)
        /\ \A i \in 1..Len(Lines) : IsRounded(Lines[i].value, AgreeingRows(Lines[i].column), Matched)
        /\ \A i, j \in 1..Len(Lines) : i < j => Lines[i].value <= Lines[j].value

\* what the code does meet: the statement of C6 with E counting the matched
\* rows whose two values are equal and not null
OverlapRatioOfPresentValues ==
    (OverlapDone /\ Matched > 0) =>
        /\ {Lines[i].column : i \in 1..Len(Lines)} = OverlapColumns
        /\ Len(Lines) = Cardinality(OverlapColumns)
        /\ \A i \in 1..Len(Lines) :
                IsRounded(Lines[i].value, BothPresentAgreeingRows(Lines[i].column), Matched)
        /\ \A i, j \in 1..Len(Lines) : i < j => Lines[i].value <= Lines[j].value

\* the rule the loop of __init__ is about to apply cannot be applied
AtRule == pc = "rules" /\ rule_idx <= Len(table.column_rules)
CurrentRule == table.column_rules[rule_idx]
Addressed(rule) == IF rule.target = "source" THEN table.source_df ELSE table.snow_df
Inapplicable(rule) ==
    \/ rule.operation \notin Operations
    \/ rule.column \notin Range(Addressed(rule).columns)

\* the step skips the rule: it raises nothing, leaves the table with both
\* datasets and the rule list as they were and moves the loop to the next
\* rule, and it prints so many lines
SkippedWith(lines) ==
    /\ pc' = "rules"
    /\ error' = error
    /\ table' = table
    /\ rule_idx' = rule_idx + 1
    /\ Len(stdout') = Len(stdout) + lines
    /\ SubSeq(stdout', 1, Len(stdout)) = stdout

\* C7: a rule that cannot be applied (operation not recognised, or column
\* not in the addressed dataset) is skipped with a diagnostic and never ends
\* the construction: the step prints a line, raises nothing, leaves both
\* datasets and the rule list as they were, and moves the loop to the next
\* rule.
C7_InapplicableRuleSkipped ==
    [][(AtRule /\ Inapplicable(CurrentRule)) => SkippedWith(1)]_vars

\* what the code does meet: the statement of C7, with no line printed for a
\* column that is not there when debug is off
InapplicableRuleSkippedQuietly ==
    [][(AtRule /\ Inapplicable(CurrentRule)) =>
            SkippedWith(IF ~debug /\ CurrentRule.column \notin Range(Addressed(CurrentRule).columns)
                        THEN 0 ELSE 1)]_vars

\* debug off: the first rule named a column that is not there and was passed
\* over without a line, the second was applied after it and changed the
\* source dataset
SilentSkipThenApplied ==
    /\ pc = "rules"
    /\ rule_idx = 3
    /\ ~debug
    /\ stdout = <<>>
    /\ table.column_rules[1].column \notin Range(Addressed(table.column_rules[1]).columns)
    /\ table.column_rules[2].operation = "cast_int"
    /\ table.source_df.rows[1][2] = IntCell(7)
    /\ table.snow_df = ReadCsv(RuleSnow, na_values)

\* debug off: the first rule named no operation of the program and was
\* passed over with a line, the second was applied after it
LoudSkipThenApplied ==
    /\ pc = "rules"
    /\ rule_idx = 3
    /\ ~debug
    /\ Len(stdout) = 1
    /\ table.column_rules[1].operation \notin Operations
    /\ table.column_rules[2].operation = "cast_int"
    /\ table.source_df.rows[1][2] = IntCell(7)

IsSubstring(key, name) ==
    \E i \in 0..(Len(name) - Len(key)) : SubSeq(name, i + 1, i + Len(key)) = key
MatchingEntries == {i \in 1..Len(json_dict) : IsSubstring(json_dict[i].key, table.name)}

\* C8: a constructed table has the column mapping, the rules and the primary
\* key of the last entry of the configuration whose key is a substring of the
\* table name, and all three empty when there is no such entry.
C8_LastMatchingEntry ==
    table # NoTable =>
        IF MatchingEntries = {}
        THEN table.column_mapping = <<>> /\ table.column_rules = <<>> /\ table.primary_key = <<>>
        ELSE LET e == json_dict[MaxOf(MatchingEntries)]
             IN /\ table.column_mapping = e.Columns
                /\ table.column_rules = e.Rules
                /\ table.primary_key = e.PK

\* two entries match the table name and the later one is not the longer key
C8_Witness ==
    /\ table # NoTable
    /\ Cardinality(MatchingEntries) = 2
    /\ Len(json_dict[MaxOf(MatchingEntries)].key) = 1
    /\ table.primary_key = json_dict[MaxOf(MatchingEntries)].PK
    /\ table.primary_key # json_dict[MinOf(MatchingEntries)].PK

\* C9: cast_int returns an integer for every cell without raising: 0 for the
\* null cell and for a text that, its leading zeros stripped, is empty or
\* not numeric, the parsed integer otherwise.
C9_CastIntTotal ==
    pc = "returned" =>
        /\ result.ok
        /\ result.v.k = "int"
        /\ x = NULL => result.v.n = 0
        /\ x = StrCell(<<"0", "0", "7">>) => result.v.n = 7
        /\ x = StrCell(<<>>) => result.v.n = 0
        /\ (x.k = "str" /\ \E i \in 1..Len(x.s) : ~IsDigit(x.s[i])) => result.v.n = 0

\* what the code does meet: the statement of C9 for the cells that hold a
\* text of ASCII characters
CastIntOfAsciiText ==
    (pc = "returned" /\ x.k = "str" /\ \A i \in 1..Len(x.s) : x.s[i] \in AsciiChars) =>
        /\ result.ok
        /\ result.v.k = "int"
        /\ x = StrCell(<<"0", "0", "7">>) => result.v.n = 7
        /\ x = StrCell(<<"7", "0">>) => result.v.n = 70
        /\ x = StrCell(<<>>) => result.v.n = 0
        /\ (\E i \in 1..Len(x.s) : ~IsDigit(x.s[i])) => result.v.n = 0

\* C10: the report file is opened for writing by the first report of a run
\* and for appending by every later one, first_run being true until the
\* first report and false from then on; no step of the run removes or
\* changes an entry the file holds, a failing comparison included.
C10_ReportAppendOnly ==
    /\ [](/\ first_run <=> open_modes = <<>>
          /\ \A i \in 1..Len(open_modes) : open_modes[i] = IF i = 1 THEN "w" ELSE "a")
    /\ [][(first_run' => first_run) /\ IsPrefix(report_file, report_file')]_vars

\* a first table was reported, a later one opened the file again and failed:
\* the first entry is still there
C10_Witness ==
    /\ pc = "raised"
    /\ Len(open_modes) = 2
    /\ Len(report_file) = 1
    /\ report_file[1].name # table.name

====
